---- MODULE Spec2Model ----
(***************************************************************************)
(* The agentic conversation driver of the two OpenAI-driven MCP clients    *)
(* (autobrowser and voicebrowser): sendChatRequest and the tool executor   *)
(* executeMCPTool / executeMCPToolWithArgs it delegates to (Spec), the     *)
(* ledger of successful invocations that autobrowser keeps, and the        *)
(* replay of a saved ledger, executeStoredCommands (ReplaySpec).           *)
(*                                                                         *)
(* Texts (message contents, error strings, URLs) are sequences of tokens;  *)
(* string concatenation is \o.                                             *)
(***************************************************************************)
EXTENDS Integers, Sequences, FiniteSets, TLC

(* ------------------------------ bounds -------------------------------- *)

\* Largest number of tool calls the model service puts into one turn.
MaxCalls == 2

\* Number of turns in which a model service that varies its calls asks for
\* tools before it stops.
MaxToolTurns == 5

(* ------------------------- program constants -------------------------- *)

autoMaxIterations == 5
voiceMaxIterations == 50
maxRetries == 5
backoffDuration == 2

Programs == {"autobrowser", "voicebrowser"}

(* --------------------------- text helpers ----------------------------- *)

\* strings.ToLower on one character of the URL alphabet.
LowerChar(c) ==
    CASE c = "C" -> "c"
      [] c = "A" -> "a"
      [] c = "N" -> "n"
      [] c = "V" -> "v"
      [] c = "O" -> "o"
      [] c = "M" -> "m"
      [] OTHER -> c

ToLower(s) == [i \in 1..Len(s) |-> LowerChar(s[i])]

\* strings.Contains(s, sub)
Contains(s, sub) ==
    \E i \in 0..(Len(s) - Len(sub)) :
        \A j \in 1..Len(sub) : s[i + j] = sub[j]

TargetSite == <<"c", "a", "n", "v", "a", ".", "c", "o", "m">>

(* ------------------- arguments and their JSON form -------------------- *)

UrlExample == <<"e", "x", ".", "c", "o", "m">>
UrlCanva == <<"w", ".", "C", "a", "n", "v", "a", ".", "c", "o", "m", "/">>
UrlDecoy == <<"e", "x", ".", "c", "o", "m", "/", "c", "a", "n", "v", "a", ".", "c", "o", "m">>

\* The argument strings the model service writes into a tool call.
JsonExample == "{\"url\":\"ex.com\"}"
JsonCanva == "{\"url\":\"w.Canva.com/\"}"
JsonDecoy == "{\"url\":\"ex.com/canva.com\"}"
JsonSelector == "{\"selector\":\"Search\"}"
JsonBroken == "{\"url\":"

ParseFailure == [fail |-> TRUE]

\* json.Unmarshal([]byte(argsJSON), &args): the decoded map, or ParseFailure.
Unmarshal(argsJSON) ==
    CASE argsJSON = JsonExample -> [fail |-> FALSE, keys |-> {"url"}, url |-> UrlExample]
      [] argsJSON = JsonCanva -> [fail |-> FALSE, keys |-> {"url"}, url |-> UrlCanva]
      [] argsJSON = JsonDecoy -> [fail |-> FALSE, keys |-> {"url"}, url |-> UrlDecoy]
      [] argsJSON = JsonSelector -> [fail |-> FALSE, keys |-> {"selector"}, url |-> <<>>]
      [] OTHER -> ParseFailure

(* ------------------------- the browser backend ------------------------ *)

\* The tools the connected MCP server lists (mcpSession.Tools).
Catalog == {"navigate", "click_button"}

\* What one backend call can do: return a result ("ok"), return a result with the
\* backend's error flag ("toolerr"), or fail as a call.
\* "listerr" is a failure of the tool listing that precedes the call.
Outcomes == {"ok", "toolerr", "callerr", "listerr"}

\* The CallToolResult of a call that returns.
BackendResult(toolName) ==
    [content |-> <<[type |-> "text", text |-> <<"done ", toolName>>]>>, isError |-> FALSE]

BackendError == <<"connection closed">>

\* What a backend call that returns can carry: the result as before
\* ("ok"), a result whose content has changed ("drift"), or a result with
\* the backend's error flag ("toolerr").
BackendResultOf(toolName, out) ==
    CASE out = "drift" ->
            [content |-> <<[type |-> "text", text |-> <<"changed ", toolName>>]>>,
             isError |-> FALSE]
      [] out = "toolerr" ->
            [content |-> <<[type |-> "text", text |-> <<"element not found">>]>>,
             isError |-> TRUE]
      [] OTHER -> BackendResult(toolName)

(* --------------------------- tool executor ---------------------------- *)

\* The lookup loop of executeMCPToolWithArgs: tool.Name == toolName for some
\* listed tool.  A listing error ends the loop before any tool is seen.
FindTool(toolName, out) ==
    /\ out # "listerr"
    /\ \E tool \in Catalog : tool = toolName

\* The bytes of image data, and their encoding in JSON (base64).
Bytes == {"0x89", "0x50"}
Base64(data) == [i \in 1..Len(data) |-> IF data[i] = "0x89" THEN "iQ" ELSE "UA"]

\* What the loop of executeMCPTool (voicebrowser) writes for a content item.
ItemText(c) ==
    CASE c.type = "text" -> c.text
      [] c.type = "image" -> <<"[Image: ", c.mimeType, ", ", ToString(Len(c.data)), " bytes]">>
      [] OTHER -> <<"[Unknown content type: ", c.type, "]">>

\* resultText of executeMCPTool (voicebrowser): what is written for the content
\* items, in content order.
RECURSIVE ContentText(_)
ContentText(content) ==
    IF content = <<>> THEN <<>>
    ELSE ItemText(Head(content)) \o ContentText(Tail(content))

\* A content item in the JSON of a result: a text, or an image with its data.
MarshalItem(c) ==
    CASE c.type = "text" -> c.text
      [] c.type = "image" ->
            <<"{type: image, mimeType: ", c.mimeType, ", data: ">> \o Base64(c.data) \o <<"}">>
      [] OTHER -> <<"{type: ", c.type, "}">>

RECURSIVE MarshalContent(_)
MarshalContent(content) ==
    IF content = <<>> THEN <<>>
    ELSE MarshalItem(Head(content)) \o MarshalContent(Tail(content))

\* json.MarshalIndent of a CallToolResult.
MarshalIndent(res) ==
    <<"{content: ">> \o MarshalContent(res.content) \o <<", isError: ", IF res.isError THEN "true" ELSE "false", "}">>

\* mcpSession.CallTool as seen by the client: a name the server does not
\* list is rejected by the server, any other call follows the outcome.
CallTool(toolName, out) ==
    IF toolName \notin Catalog THEN [err |-> TRUE, text |-> <<"unknown tool ", toolName>>]
    ELSE IF out \in {"callerr", "listerr"} THEN [err |-> TRUE, text |-> BackendError]
    ELSE [err |-> FALSE, res |-> BackendResultOf(toolName, out)]

\* executeMCPToolWithArgs (autobrowser).  Returns the (string, error) pair
\* and the names passed to CallTool.
executeMCPToolWithArgs(toolName, args, out) ==
    IF ~FindTool(toolName, out)
    THEN [err |-> TRUE, text |-> <<"tool not found: ", toolName>>, called |-> <<>>]
    ELSE LET r == CallTool(toolName, out) IN
         IF r.err
         THEN [err |-> TRUE, text |-> <<"failed to execute tool: ">> \o r.text,
               called |-> <<toolName>>]
         ELSE [err |-> FALSE, text |-> MarshalIndent(r.res), called |-> <<toolName>>]

\* A CommandInvocation.
Invocation(toolName, args, res, t) ==
    [toolName |-> toolName, arguments |-> args, result |-> res, timestamp |-> t]

\* Mutant: a call that failed is recorded as well, with its error text.
executeMCPToolAutoRecordsFailures(toolName, argsJSON, out, t) ==
    LET args == Unmarshal(argsJSON) IN
    IF args.fail
    THEN [err |-> TRUE, text |-> <<"failed to parse tool arguments">>,
          called |-> <<>>, recorded |-> <<>>]
    ELSE LET r == executeMCPToolWithArgs(toolName, args, out) IN
         [err |-> r.err, text |-> r.text, called |-> r.called,
          recorded |-> <<Invocation(toolName, args, r.text, t)>>]

\* executeMCPTool of autobrowser at time t; "recorded" is the invocation it
\* appends to learningData.Commands and hands to saveCommandToFile.
executeMCPToolAuto(toolName, argsJSON, out, t) ==
    LET args == Unmarshal(argsJSON) IN
    IF args.fail
    THEN [err |-> TRUE, text |-> <<"failed to parse tool arguments">>,
          called |-> <<>>, recorded |-> <<>>]
    ELSE LET r == executeMCPToolWithArgs(toolName, args, out) IN
         IF r.err
         THEN [err |-> TRUE, text |-> r.text, called |-> r.called, recorded |-> <<>>]
         ELSE [err |-> FALSE, text |-> r.text, called |-> r.called,
               recorded |-> <<Invocation(toolName, args, r.text, t)>>]

\* Mutant: the record of an invocation is not written when it is made.
saveCommandToFileNever(files, cmd, nano, writeOK) == files

\* saveCommandToFile: the invocation goes to a file of its own, named by
\* the nanosecond clock and the tool name.  A write that fails is reported
\* and leaves no file.  The files are kept in the order of their names.
saveCommandToFile(files, cmd, nano, writeOK) ==
    IF writeOK THEN Append(files, [name |-> <<nano, cmd.toolName>>, data |-> cmd])
    ELSE files

\* Mutant: the newest invocation is put in front of the ledger.
AppendCommandInFront(commands, recorded) == recorded \o commands

\* learningData.Commands = append(learningData.Commands, invocation)
AppendCommand(commands, recorded) == commands \o recorded

\* executeMCPTool of voicebrowser: no catalog lookup, the name goes to
\* CallTool as it is; nothing is recorded.
executeMCPToolVoice(toolName, argsJSON, out) ==
    LET args == Unmarshal(argsJSON) IN
    IF args.fail
    THEN [err |-> TRUE, text |-> <<"failed to parse tool arguments">>,
          called |-> <<>>, recorded |-> <<>>]
    ELSE LET r == CallTool(toolName, out) IN
         IF r.err
         THEN [err |-> TRUE,
               text |-> <<"failed to execute tool ", toolName, ": ">> \o r.text,
               called |-> <<toolName>>, recorded |-> <<>>]
         ELSE [err |-> FALSE, text |-> ContentText(r.res.content),
               called |-> <<toolName>>, recorded |-> <<>>]

(* ---------------------- the model service's turns --------------------- *)

\* A session fixes the plan: the calls the model service asks for in every
\* turn in which it asks for tools, each with a call ID never used before,
\* and the backend's outcome for each call of the plan.  The service may
\* stop, fail or be rate-limited at any request.

\* The calls the model service asks for: a tool name and an argument string.
Shapes ==
    { [name |-> "navigate", args |-> JsonCanva],
      [name |-> "navigate", args |-> JsonDecoy],
      [name |-> "Navigate", args |-> JsonExample],
      [name |-> "click_button", args |-> JsonBroken] }

RECURSIVE SeqsUpTo(_, _)
SeqsUpTo(S, n) ==
    IF n = 0 THEN {<<>>}
    ELSE LET shorter == SeqsUpTo(S, n - 1) IN
         shorter \cup {Append(q, x) : q \in {r \in shorter : Len(r) = n - 1}, x \in S}

Plans == SeqsUpTo(Shapes, MaxCalls) \ {<<>>}

\* A call reaches the backend when its arguments parse and its name is listed.
Reaches(shape) == ~Unmarshal(shape.args).fail /\ shape.name \in Catalog

\* The outcomes the backend can have for the calls of a plan.  Only
\* autobrowser lists the tools before a call.
PlanOutcomes(prog, p) ==
    { o \in [1..Len(p) -> Outcomes] :
        \A i \in 1..Len(p) :
            /\ ~Reaches(p[i]) => o[i] = "ok"
            /\ prog = "voicebrowser" => o[i] # "listerr" }

(* ----------------------- model-service errors ------------------------- *)

\* The errors CreateChatCompletion returns: an *openai.APIError with its
\* Type and Code, or an error of another kind.
NoError == [api |-> FALSE, type |-> "nil", code |-> "nil"]

ModelErrors ==
    { [api |-> TRUE, type |-> "rate_limit_exceeded", code |-> "429"],
      [api |-> TRUE, type |-> "requests", code |-> "rate_limit_exceeded"],
      [api |-> TRUE, type |-> "server_error", code |-> "500"],
      [api |-> FALSE, type |-> "transport", code |-> "eof"] }

\* Mutant: every API error is taken for a rate-limit error.
IsRateLimitAnyAPIError(e) == e.api

\* The test of the retry loop for a rate-limit error.
IsRateLimit(e) ==
    e.api /\ (e.type = "rate_limit_exceeded" \/ e.code = "rate_limit_exceeded")

\* Mutant: the backoff does not grow with the attempt number.
retryAfterFlat(rc) == backoffDuration

\* retryAfter := backoffDuration * time.Duration(retryCount+1)
retryAfter(rc) == backoffDuration * (rc + 1)

\* Mutant: the retry loop runs once more than maxRetries allows.
RetryLoopContinuesInclusive(rc) == rc <= maxRetries

\* The condition of the retry loop.
RetryLoopContinues(rc) == rc < maxRetries

(* ------------------- replay of a saved ledger: data ------------------- *)

\* Largest number of commands in a ledger file.
MaxEntries == 3

\* calculateHash: the SHA-256 digest of a text; different texts have
\* different digests.
calculateHash(data) == <<"sha256:">> \o data

\* json.Unmarshal of a result text into resultMap, and its isError field.
ResultMap(res) ==
    IF res # <<>> /\ res[1] = "{content: "
    THEN [fail |-> FALSE,
          isError |-> \E i \in 1..(Len(res) - 1) :
                          res[i] = ", isError: " /\ res[i + 1] = "true"]
    ELSE [fail |-> TRUE, isError |-> FALSE]

\* Mutant: a result that differs from the recorded one is taken for an error.
NeedsRepairOnDrift(cmd, res) == res # cmd.result

\* The test that opens the repair branch: the result text is a JSON
\* dictionary whose isError field is true.
NeedsRepair(cmd, res) ==
    LET resultMap == ResultMap(res) IN ~resultMap.fail /\ resultMap.isError

\* The new ledger has a last command, and its result is not empty.
HasSnapshot(updated) == Len(updated) > 0 /\ updated[Len(updated)].result # <<>>

\* What the analysis request carries: the result of the last command of
\* the new ledger, and the name, recorded result and arguments of the
\* command at hand.
AnalysisRequest(updated, cmd) ==
    [before |-> updated[Len(updated)].result, failed |-> cmd.toolName,
     after |-> cmd.result, args |-> cmd.arguments]

\* The answers of the model service to an analysis request: an error, a
\* response without choices, or a suggestion.
AnalysisAnswers ==
    { [err |-> TRUE, choices |-> <<>>],
      [err |-> FALSE, choices |-> <<>>],
      [err |-> FALSE, choices |-> <<JsonSelector>>],
      [err |-> FALSE, choices |-> <<JsonBroken>>] }

\* The new arguments an answer yields, or ParseFailure when there are none.
SuggestedArgs(answer) ==
    IF ~answer.err /\ Len(answer.choices) > 0 THEN Unmarshal(answer.choices[1])
    ELSE ParseFailure

\* Mutant: what the retry returned is taken over even when it failed.
RetryResultAlways(res, r) == r.text

\* result after the retry r: the retry's result when it returned no error.
RetryResult(res, r) == IF ~r.err THEN r.text ELSE res

\* Mutant: the recorded result is kept when the hashes differ.
UpdatedResultSwapped(cmd, res) ==
    IF calculateHash(cmd.result) = calculateHash(res) THEN res ELSE cmd.result

\* updatedCmd.Result: the recorded result when the hashes are equal, the
\* new result otherwise.
UpdatedResult(cmd, res) ==
    IF calculateHash(cmd.result) = calculateHash(res) THEN cmd.result ELSE res

\* Mutant: the updated command loses the arguments of the recorded one.
UpdatedCommandWithoutArguments(cmd, res, t) ==
    Invocation(cmd.toolName, ParseFailure, UpdatedResult(cmd, res), t)

\* updatedCmd
UpdatedCommand(cmd, res, t) ==
    Invocation(cmd.toolName, cmd.arguments, UpdatedResult(cmd, res), t)

\* Mutant: the command that failed is kept without its recorded result.
KeepOriginalWithoutResult(updated, cmd) == Append(updated, [cmd EXCEPT !.result = <<>>])

\* updatedLearning.Commands = append(updatedLearning.Commands, cmd)
KeepOriginal(updated, cmd) == Append(updated, cmd)

\* The commands a ledger file can hold: two that the backend still lists,
\* recorded with the results the backend gave, and one of a tool the
\* backend no longer lists, recorded without a result.
RecordedCommands ==
    { Invocation("navigate", Unmarshal(JsonExample),
                 MarshalIndent(BackendResult("navigate")), 0),
      Invocation("click_button", Unmarshal(JsonSelector),
                 MarshalIndent(BackendResult("click_button")), 0),
      Invocation("screenshot", Unmarshal(JsonSelector), <<>>, 0) }

NoFile == [kind |-> "absent", commands |-> <<>>]

\* learning.json: absent, unreadable, not a LearningSummary, or a
\* LearningSummary of at most MaxEntries commands.
LedgerFiles ==
    {NoFile, [kind |-> "unreadable", commands |-> <<>>],
     [kind |-> "corrupt", commands |-> <<>>]}
    \cup {[kind |-> "commands", commands |-> c] : c \in SeqsUpTo(RecordedCommands, MaxEntries)}

\* Mutant: the test for the file is skipped.
FileExistsAlways(file) == TRUE

\* os.Stat(filename) finds the file.
FileExists(file) == file.kind # "absent"

\* What the backend can do with a command that is replayed, and with a
\* command that is retried.  A tool that is not listed is never called.
ReplayOutcomes(toolName) ==
    IF toolName \in Catalog THEN {"ok", "drift", "toolerr", "callerr"} ELSE {"ok"}

RetryOutcomes(toolName) ==
    IF toolName \in Catalog THEN {"ok", "toolerr", "callerr"} ELSE {"ok"}

(* ------------------------------ state --------------------------------- *)

VARIABLES
    program,        \* which client runs: "autobrowser" or "voicebrowser"
    plan,           \* the calls the model service asks for in a tool turn
    outcomes,       \* the backend's outcome for each call of the plan
    patience,       \* number of turns in which the model service asks for tools
    issued,         \* number of call IDs the model service has issued
    tempCommandDir, \* tempCommandDir: the directory of the command logs, or ""
    writeFails,     \* whether os.WriteFile fails in the directory of the command logs
    now,            \* time.Now(), in seconds since the session started
    pc,             \* position of sendChatRequest
    iteration,      \* iteration
    retryCount,     \* retryCount of the retry loop
    err,            \* err of the last CreateChatCompletion
    slept,          \* durations the retry loop slept in this iteration
    attempts,       \* CreateChatCompletion calls made in this iteration
    messages,       \* messages
    resp,           \* the assistant message of the current iteration
    callIdx,        \* index of the current tool call (1-based)
    result,         \* result text of the tool call being answered
    finalResponse,  \* finalResponse, as a sequence of transcript entries
    initialLoginPromptShown,
    learningData,   \* learningData.Commands
    commandFiles,   \* the files of tempCommandDir, in the order of their names
    execLog,        \* the calls of executeMCPTool and what they returned, in order
    backendCalls,   \* tool names handed to mcpSession.CallTool, in order
    learningFile,   \* learning.json
    updatedFile,    \* learning.json.updated
    rpc,            \* position of executeStoredCommands
    summary,        \* summary.Commands
    updatedLearning, \* updatedLearning.Commands
    cmdIdx,         \* index of the command being replayed (1-based)
    newArgs,        \* newArgs
    didReplay,      \* what executeStoredCommands returned: the flag and the error
    replayRuns,     \* the calls of executeMCPToolWithArgs made by the replay, in order
    analysisLog,    \* the analysis requests sent to the model service, in order
    session,        \* how many times the program has been started
    mcpTools,       \* the tools the backend lists, as handed to convertToOpenAITools
    openaiTools,    \* tools: what convertToOpenAITools returned
    apc,            \* where the conversion of the catalog is
    page,           \* the elements of the page the browser shows
    clickTool,      \* the tool called last: click_button or click_link
    clickArg,       \* selector of that call
    resolution,     \* what findElementWithSmartSelector returned, and what it tried
    clickAttempts,  \* the clicks the handler made, in order
    toolResult,     \* the CallToolResult of the handler
    closeOnExit,    \* os.Getenv("CLOSE_CHROME_ON_EXIT")
    keepChromeOpen, \* s.keepChromeOpen
    lastKeepOpen,   \* keep_open of the last set_chrome_lifecycle call, if any: <<>> or <<b>>
    spc,            \* position of main of the cdpbrowser server
    stderrLines,    \* the lines Chrome writes to stderr, in order
    stderrEnd,      \* what follows them: "eof", "readerr", or "open" (nothing more)
    scanned,        \* number of lines the listener has read
    listener,       \* the goroutine reading stderr: "none", "scanning", "done"
    wsURLChan,      \* wsURLChan
    errChan,        \* errChan
    sentIn,         \* where the main flow was when the listener sent ("": not sent)
    timedOut,       \* whether the channel of time.After is ready
    launchErr,      \* what launchChromeAndGetWebSocketURL returned, or "pending"
    wsURL,          \* s.wsURL
    chromeCmd,      \* whether s.chromeCmd is set
    chrome,         \* the Chrome process: "none", "running", "killed"
    shutdownPending, \* whether a goroutine of ShutdownServer is about to call os.Exit
    exitHow,        \* how the server ended: "", "fatal", "os.Exit", "return"
    formArgs,       \* the arguments of the last form tool call besides the selector
    pageEffect,     \* what that call did to the page: the nodes and attributes written
    globalMCPSession, \* the session of client.Connect: "none", "open" or "closed"
    closeCalls,     \* number of calls of session.Close()
    callResult,     \* the CallToolResult an executor is given by mcpSession.CallTool
    executor,       \* the program whose executor converted it, or "none"
    normalized      \* the string the executor returned

envVars == <<program, plan, outcomes, patience, issued, tempCommandDir, writeFails, now>>
driverVars == <<pc, iteration, retryCount, err, slept, attempts, messages, resp, callIdx,
                result, finalResponse, initialLoginPromptShown>>
executorVars == <<learningData, commandFiles, execLog, backendCalls>>
replayVars == <<learningFile, updatedFile, rpc, summary, updatedLearning, cmdIdx, newArgs,
                didReplay, replayRuns, analysisLog, session>>
adapterVars == <<mcpTools, openaiTools, apc>>
clientVars == <<envVars, driverVars, executorVars, replayVars>>
resolverVars == <<page, clickTool, clickArg, resolution, clickAttempts, toolResult>>
launchVars == <<stderrLines, stderrEnd, scanned, listener, wsURLChan, errChan, sentIn, timedOut,
                launchErr, wsURL>>
serverVars == <<closeOnExit, keepChromeOpen, lastKeepOpen, spc, launchVars, chromeCmd,
                chrome, shutdownPending, exitHow>>
formVars == <<formArgs, pageEffect>>
connVars == <<globalMCPSession, closeCalls>>
normVars == <<callResult, executor, normalized>>
farVars == <<adapterVars, resolverVars, serverVars, formVars, normVars>>
restVars == <<farVars, connVars>>
vars == <<clientVars, restVars>>

\* The catalog is not being converted.
AdapterIdle ==
    /\ mcpTools = <<>>
    /\ openaiTools = <<>>
    /\ apc = "idle"

\* No page is shown and no tool has been called.
ResolverIdle ==
    /\ page = {}
    /\ clickTool = "none"
    /\ clickArg = <<>>
    /\ resolution = [locator |-> <<>>, err |-> FALSE, tried |-> <<>>]
    /\ clickAttempts = <<>>
    /\ toolResult = [isError |-> FALSE, text |-> <<>>]

\* The start and the end of the cdpbrowser server are not followed.
ServerIdle ==
    /\ closeOnExit = ""
    /\ keepChromeOpen = TRUE
    /\ lastKeepOpen = <<>>
    /\ spc = "off"
    /\ stderrLines = <<>>
    /\ stderrEnd = "open"
    /\ scanned = 0
    /\ listener = "none"
    /\ wsURLChan = <<>>
    /\ errChan = <<>>
    /\ sentIn = ""
    /\ timedOut = FALSE
    /\ launchErr = "pending"
    /\ wsURL = <<>>
    /\ chromeCmd = FALSE
    /\ chrome = "none"
    /\ shutdownPending = FALSE
    /\ exitHow = ""

\* No form tool has been called.
FormIdle ==
    /\ formArgs = <<>>
    /\ pageEffect = <<>>

\* No result is being converted.
NormIdle ==
    /\ callResult = [content |-> <<>>, isError |-> FALSE]
    /\ executor = "none"
    /\ normalized = <<>>

FarIdle == AdapterIdle /\ ResolverIdle /\ ServerIdle /\ FormIdle /\ NormIdle

\* The session of the client is not followed.
ConnIdle ==
    /\ globalMCPSession = "none"
    /\ closeCalls = 0

\* session, err := client.Connect(...) has returned a session.
Connected ==
    /\ globalMCPSession = "open"
    /\ closeCalls = 0

RestIdle == FarIdle /\ ConnIdle

maxIterations == IF program = "autobrowser" THEN autoMaxIterations ELSE voiceMaxIterations

\* Mutant: the conversation loop runs once more than maxIterations allows.
LoopConditionInclusive(it) == it <= maxIterations

\* The condition of the conversation loop.
LoopCondition(it) == it < maxIterations

NoMessage == [role |-> "none", content |-> <<>>, toolCalls |-> <<>>, toolCallID |-> 0]

Message(role, content, toolCalls, toolCallID) ==
    [role |-> role, content |-> content, toolCalls |-> toolCalls, toolCallID |-> toolCallID]

CommandDir == "/tmp/mcp-commands"

\* The returns of executeStoredCommands.
NotExecuted == [flag |-> FALSE, error |-> "nil"]
Executed == [flag |-> TRUE, error |-> "nil"]
ReplayError(text) == [flag |-> FALSE, error |-> text]

\* time.Now().UnixNano() in saveCommandToFile: every execution reads a
\* later nanosecond than the one before.
UnixNano == Len(execLog) + 1

\* "Also persist to a file immediately for safety": the invocation just
\* recorded is saved when tempCommandDir is set.
PersistCommand(files, recorded) ==
    IF recorded # <<>> /\ tempCommandDir # ""
    THEN saveCommandToFile(files, recorded[1], UnixNano, ~writeFails)
    ELSE files

\* The model service either asks for any plan in at most MaxToolTurns turns,
\* or keeps asking voicebrowser for one call a turn for as long as it is asked.
\* Only autobrowser keeps command logs: os.MkdirAll may have failed, which
\* leaves tempCommandDir empty, and the writes into the directory may fail.
\* Only voicebrowser looks at the URL of a call.  No learning.json was
\* there when the session started: executeStoredCommands has returned false.
Init ==
    /\ program \in Programs
    /\ plan \in Plans
    /\ program = "autobrowser" => \A i \in 1..Len(plan) : plan[i].args # JsonDecoy
    /\ outcomes \in PlanOutcomes(program, plan)
    /\ patience \in {MaxToolTurns, voiceMaxIterations}
    /\ patience # MaxToolTurns => (program = "voicebrowser" /\ Len(plan) = 1)
    /\ tempCommandDir \in IF program = "autobrowser" THEN {"", CommandDir} ELSE {""}
    /\ writeFails \in IF tempCommandDir = "" THEN {FALSE} ELSE BOOLEAN
    /\ now = 0
    /\ issued = 0
    /\ pc = "loop"
    /\ iteration = 0
    /\ retryCount = 0
    /\ err = NoError
    /\ slept = <<>>
    /\ attempts = 0
    /\ messages = << Message("system", <<"system prompt">>, <<>>, 0),
                     Message("user", <<"task">>, <<>>, 0) >>
    /\ resp = NoMessage
    /\ callIdx = 0
    /\ result = <<>>
    /\ finalResponse = <<"Tool Execution Flow">>
    /\ initialLoginPromptShown = FALSE
    /\ learningData = <<>>
    /\ commandFiles = <<>>
    /\ execLog = <<>>
    /\ backendCalls = <<>>
    /\ learningFile = NoFile
    /\ updatedFile = NoFile
    /\ rpc = "returned"
    /\ summary = <<>>
    /\ updatedLearning = <<>>
    /\ cmdIdx = 0
    /\ newArgs = ParseFailure
    /\ didReplay = NotExecuted
    /\ replayRuns = <<>>
    /\ analysisLog = <<>>
    /\ session = 1
    /\ RestIdle

(* --------------------------- sendChatRequest -------------------------- *)

Notice == "Reached maximum iterations"

\* Mutant: the notice is written only once the counter has passed the
\* ceiling, which it never does.
AfterLoopStrict(fr, it) ==
    IF program = "voicebrowser" /\ it > maxIterations THEN Append(fr, Notice) ELSE fr

\* The statements after the loop: voicebrowser tests the counter, the
\* notice of autobrowser is written inside the loop.
AfterLoop(fr, it) ==
    IF program = "voicebrowser" /\ it >= maxIterations THEN Append(fr, Notice) ELSE fr

\* The transcript after the assistant's message was received.
WithAssistant(fr, content) ==
    IF program = "voicebrowser" THEN fr \o <<"Iteration", "OpenAI">>
    ELSE IF content # <<>> THEN Append(fr, "Assistant") ELSE fr

\* The tool calls of a turn: the plan, with call IDs never issued before.
IssueCalls(p, n) ==
    [i \in 1..Len(p) |-> [id |-> n + i, name |-> p[i].name, args |-> p[i].args]]

\* Loop condition holds: the iteration starts (voicebrowser counts it
\* now), the request is built and the retry loop is entered.
BeginIteration ==
    /\ pc = "loop"
    /\ LoopCondition(iteration)
    /\ iteration' = IF program = "voicebrowser" THEN iteration + 1 ELSE iteration
    /\ retryCount' = 0
    /\ err' = NoError
    /\ slept' = <<>>
    /\ attempts' = 0
    /\ pc' = "call"
    /\ UNCHANGED <<replayVars, restVars, envVars, executorVars, messages, resp, callIdx, result,
                   finalResponse, initialLoginPromptShown>>

\* Loop condition fails: the loop is left and the transcript returned.
LoopExit ==
    /\ pc = "loop"
    /\ ~LoopCondition(iteration)
    /\ finalResponse' = AfterLoop(finalResponse, iteration)
    /\ pc' = "done"
    /\ UNCHANGED <<replayVars, restVars, envVars, executorVars, iteration, retryCount, err, slept, attempts,
                   messages, resp, callIdx, result, initialLoginPromptShown>>

\* CreateChatCompletion fails.  A rate-limit error is slept on and counted,
\* and the retry loop either tries again or ends with err set; any other
\* error breaks out of the retry loop.  With err set the error is returned.
ModelFails ==
    /\ pc = "call"
    /\ \E e \in ModelErrors :
        /\ err' = e
        /\ IF IsRateLimit(e)
           THEN /\ slept' = Append(slept, retryAfter(retryCount))
                /\ retryCount' = retryCount + 1
                /\ pc' = IF RetryLoopContinues(retryCount + 1) THEN "call" ELSE "failed"
           ELSE /\ UNCHANGED <<slept, retryCount>>
                /\ pc' = "failed"
    /\ attempts' = attempts + 1
    /\ UNCHANGED <<replayVars, restVars, envVars, executorVars, iteration, messages, resp, callIdx,
                   result, finalResponse, initialLoginPromptShown>>

\* CreateChatCompletion succeeds but carries no choice: autobrowser returns
\* "no response from OpenAI", voicebrowser indexes Choices[0] and panics.
NoChoices ==
    /\ pc = "call"
    /\ err' = NoError
    /\ attempts' = attempts + 1
    /\ pc' = IF program = "autobrowser" THEN "failed" ELSE "panic"
    /\ UNCHANGED <<replayVars, restVars, envVars, executorVars, iteration, retryCount, slept, messages,
                   resp, callIdx, result, finalResponse, initialLoginPromptShown>>

\* CreateChatCompletion succeeds with tool calls: the assistant message is
\* appended and the tool loop is entered.  The clock is read in seconds:
\* the calls of a turn fall into one second, two turns into different ones.
ModelCallsTools ==
    /\ pc = "call"
    /\ issued < patience * Len(plan)
    /\ LET msg == Message("assistant", <<>>, IssueCalls(plan, issued), 0) IN
        /\ resp' = msg
        /\ messages' = Append(messages, msg)
        /\ finalResponse' = WithAssistant(finalResponse, msg.content)
    /\ issued' = issued + Len(plan)
    /\ now' = now + 1
    /\ err' = NoError
    /\ attempts' = attempts + 1
    /\ callIdx' = 1
    /\ pc' = "exec"
    /\ UNCHANGED <<replayVars, restVars, program, plan, outcomes, patience, tempCommandDir, writeFails,
                   executorVars, iteration,
                   retryCount, slept, result, initialLoginPromptShown>>

\* CreateChatCompletion succeeds without tool calls: the assistant message
\* is appended, the loop is left by break and the transcript returned.
ModelStops ==
    /\ pc = "call"
    /\ \E content \in {<<>>, <<"finished">>} :
        LET msg == Message("assistant", content, <<>>, 0) IN
        /\ resp' = msg
        /\ messages' = Append(messages, msg)
        /\ finalResponse' = AfterLoop(WithAssistant(finalResponse, content), iteration)
    /\ err' = NoError
    /\ attempts' = attempts + 1
    /\ pc' = "done"
    /\ UNCHANGED <<replayVars, restVars, envVars, executorVars, iteration, retryCount, slept, callIdx,
                   result, initialLoginPromptShown>>

\* The text that answers a tool call.
ResultMsg(toolName, r) ==
    IF ~r.err THEN r.text
    ELSE IF program = "autobrowser"
         THEN <<"Error executing ", toolName, ": ">> \o r.text
         ELSE <<"Error: ">> \o r.text

\* The condition of voicebrowser's pause for manual login.
IsFirstTargetNavigate(toolCall, shown) ==
    /\ toolCall.name = "navigate"
    /\ ~shown
    /\ LET args == Unmarshal(toolCall.args) IN
        /\ ~args.fail
        /\ "url" \in args.keys
        /\ Contains(ToLower(args.url), TargetSite)

\* Mutant: an error of a tool call is returned from sendChatRequest.
AfterExecAbortOnError(toolCall, r) ==
    IF r.err THEN "failed"
    ELSE IF program = "voicebrowser"
            /\ IsFirstTargetNavigate(toolCall, initialLoginPromptShown)
         THEN "pause"
         ELSE "answer"

\* Where the tool loop goes once executeMCPTool has returned r: to the
\* manual-login pause (voicebrowser) or straight to the tool-role message.
\* An error of the call changes nothing here.
AfterExec(toolCall, r) ==
    IF program = "voicebrowser" /\ IsFirstTargetNavigate(toolCall, initialLoginPromptShown)
    THEN "pause"
    ELSE "answer"

\* Mutant: the tool loop walks the calls from the last to the first.
CurrentCallReversed == resp.toolCalls[Len(resp.toolCalls) + 1 - callIdx]

\* Which tool call the tool loop is at.
CurrentCall == resp.toolCalls[callIdx]

\* One tool call is executed.  The locals of the retry loop are out of
\* scope from here on.
ExecTool ==
    /\ pc = "exec"
    /\ LET toolCall == CurrentCall
           r == IF program = "autobrowser"
                THEN executeMCPToolAuto(toolCall.name, toolCall.args, outcomes[callIdx], now)
                ELSE executeMCPToolVoice(toolCall.name, toolCall.args, outcomes[callIdx])
       IN
        /\ execLog' = Append(execLog, [id |-> toolCall.id, name |-> toolCall.name,
                                      args |-> toolCall.args, err |-> r.err,
                                      text |-> r.text, at |-> now])
        /\ backendCalls' = backendCalls \o r.called
        /\ learningData' = AppendCommand(learningData, r.recorded)
        /\ commandFiles' = PersistCommand(commandFiles, r.recorded)
        /\ result' = ResultMsg(toolCall.name, r)
        /\ finalResponse' = finalResponse \o <<"Tool Call", "Result">>
        /\ pc' = AfterExec(toolCall, r)
    /\ retryCount' = 0
    /\ slept' = <<>>
    /\ attempts' = 0
    /\ UNCHANGED <<replayVars, restVars, envVars, iteration, err, messages, resp, callIdx,
                   initialLoginPromptShown>>

\* The operator presses Enter at the manual-login prompt.
OperatorContinues ==
    /\ pc = "pause"
    /\ initialLoginPromptShown' = TRUE
    /\ pc' = "answer"
    /\ UNCHANGED <<replayVars, restVars, envVars, executorVars, iteration, retryCount, err, slept, attempts,
                   messages, resp, callIdx, result, finalResponse>>

\* Mutant: the tool-role message is built without its ToolCallID.
ToolMessageNoID(content, toolCall) == Message("tool", content, <<>>, 0)

\* Mutant: every tool-role message carries the ID of the turn's first call.
ToolMessageFirstID(content, toolCall) ==
    Message("tool", content, <<>>, resp.toolCalls[1].id)

\* The tool-role message of the current call.
ToolMessage(content, toolCall) == Message("tool", content, <<>>, toolCall.id)

\* The result is appended as a tool-role message; the tool loop advances.
AnswerTool ==
    /\ pc = "answer"
    /\ messages' = Append(messages, ToolMessage(result, CurrentCall))
    /\ IF callIdx < Len(resp.toolCalls)
       THEN /\ callIdx' = callIdx + 1
            /\ pc' = "exec"
       ELSE /\ callIdx' = callIdx
            /\ pc' = "enditer"
    /\ UNCHANGED <<replayVars, restVars, envVars, executorVars, iteration, retryCount, err, slept, attempts, resp,
                   result, finalResponse, initialLoginPromptShown>>

\* End of the loop body: autobrowser writes its notice on the last
\* iteration and counts the iteration; voicebrowser sleeps.
EndIteration ==
    /\ pc = "enditer"
    /\ IF program = "autobrowser"
       THEN /\ finalResponse' = IF iteration = maxIterations - 1
                                 THEN Append(finalResponse, Notice)
                                 ELSE finalResponse
            /\ iteration' = iteration + 1
       ELSE UNCHANGED <<finalResponse, iteration>>
    /\ pc' = "loop"
    /\ UNCHANGED <<replayVars, restVars, envVars, executorVars, retryCount, err, slept, attempts, messages, resp,
                   callIdx, result, initialLoginPromptShown>>

Next ==
    \/ BeginIteration
    \/ LoopExit
    \/ ModelFails
    \/ NoChoices
    \/ ModelCallsTools
    \/ ModelStops
    \/ ExecTool
    \/ OperatorContinues
    \/ AnswerTool
    \/ EndIteration

Spec == Init /\ [][Next]_vars

\* Every blocking call returns: the model service and the backend answer or
\* fail, sleeps end, and the operator answers the login prompt.
FairSpec == Spec /\ WF_vars(Next)

TypeOK ==
    /\ pc \in {"loop", "call", "exec", "pause", "answer", "enditer", "done", "failed", "panic"}
    /\ iteration \in 0..maxIterations
    /\ retryCount \in 0..maxRetries
    /\ attempts \in 0..maxRetries

(* ------------------------ executeStoredCommands ----------------------- *)

\* What executeStoredCommands never touches: the conversation driver has
\* not started, and the replay writes no command logs.
replayFrame == <<program, plan, outcomes, patience, issued, tempCommandDir, writeFails,
                 pc, iteration, retryCount, err, slept, attempts, messages, resp, callIdx,
                 finalResponse, initialLoginPromptShown, commandFiles, execLog, session, restVars>>

\* main has connected, emptied learningData and set up tempCommandDir, and
\* calls executeStoredCommands on learning.json.
ReplayInit ==
    /\ program = "autobrowser"
    /\ plan = <<>>
    /\ outcomes = <<>>
    /\ patience = 0
    /\ tempCommandDir \in {"", CommandDir}
    /\ writeFails = FALSE
    /\ now = 1
    /\ issued = 0
    /\ pc = "replay"
    /\ iteration = 0
    /\ retryCount = 0
    /\ err = NoError
    /\ slept = <<>>
    /\ attempts = 0
    /\ messages = <<>>
    /\ resp = NoMessage
    /\ callIdx = 0
    /\ result = <<>>
    /\ finalResponse = <<>>
    /\ initialLoginPromptShown = FALSE
    /\ learningData = <<>>
    /\ commandFiles = <<>>
    /\ execLog = <<>>
    /\ backendCalls = <<>>
    /\ learningFile \in LedgerFiles
    /\ updatedFile = NoFile
    /\ rpc = "start"
    /\ summary = <<>>
    /\ updatedLearning = <<>>
    /\ cmdIdx = 0
    /\ newArgs = ParseFailure
    /\ didReplay = NotExecuted
    /\ replayRuns = <<>>
    /\ analysisLog = <<>>
    /\ session = 1
    /\ RestIdle

\* The statements before the loop: the file is looked for, read and
\* parsed; without a file or without commands nothing is replayed.
ReplayLoad ==
    /\ rpc = "start"
    /\ IF ~FileExists(learningFile)
       THEN /\ didReplay' = NotExecuted
            /\ rpc' = "returned"
            /\ UNCHANGED <<summary, cmdIdx>>
       ELSE IF learningFile.kind \in {"absent", "unreadable"}
       THEN /\ didReplay' = ReplayError("error reading")
            /\ rpc' = "returned"
            /\ UNCHANGED <<summary, cmdIdx>>
       ELSE IF learningFile.kind = "corrupt"
       THEN /\ didReplay' = ReplayError("error parsing")
            /\ rpc' = "returned"
            /\ UNCHANGED <<summary, cmdIdx>>
       ELSE IF Len(learningFile.commands) = 0
       THEN /\ didReplay' = NotExecuted
            /\ rpc' = "returned"
            /\ summary' = learningFile.commands
            /\ UNCHANGED cmdIdx
       ELSE /\ summary' = learningFile.commands
            /\ cmdIdx' = 1
            /\ rpc' = "entry"
            /\ UNCHANGED didReplay
    /\ UNCHANGED <<replayFrame, now, result, learningData, backendCalls, learningFile,
                   updatedFile, updatedLearning, newArgs, replayRuns, analysisLog>>

\* cmd of the loop over summary.Commands.
CurrentCommand == summary[cmdIdx]

\* Where the loop goes from the command at hand: to the next command, or
\* to the statements after the loop.
NextCommand == IF cmdIdx < Len(summary) THEN "entry" ELSE "save"

ReplayRun(args, r) == [entry |-> cmdIdx, args |-> args, err |-> r.err, text |-> r.text]

\* The command is executed.  When this fails the recorded command goes
\* into the new ledger and the loop continues; otherwise the result is
\* looked at for the error flag.
ReplayExecute ==
    /\ rpc = "entry"
    /\ \E out \in ReplayOutcomes(CurrentCommand.toolName) :
        LET cmd == CurrentCommand
            r == executeMCPToolWithArgs(cmd.toolName, cmd.arguments, out)
        IN
        /\ replayRuns' = Append(replayRuns, ReplayRun(cmd.arguments, r))
        /\ backendCalls' = backendCalls \o r.called
        /\ IF r.err
           THEN /\ updatedLearning' = KeepOriginal(updatedLearning, cmd)
                /\ result' = <<>>
                /\ cmdIdx' = cmdIdx + 1
                /\ rpc' = NextCommand
           ELSE /\ result' = r.text
                /\ rpc' = IF NeedsRepair(cmd, r.text) /\ HasSnapshot(updatedLearning)
                          THEN "analyse" ELSE "compare"
                /\ UNCHANGED <<updatedLearning, cmdIdx>>
    /\ UNCHANGED <<replayFrame, now, learningData, learningFile, updatedFile, summary,
                   newArgs, didReplay, analysisLog>>

\* The model service is asked for new arguments; an answer that yields
\* arguments leads to the retry.
ReplayAnalyse ==
    /\ rpc = "analyse"
    /\ \E answer \in AnalysisAnswers :
        /\ analysisLog' = Append(analysisLog,
                                 [entry |-> cmdIdx,
                                  request |-> AnalysisRequest(updatedLearning, CurrentCommand),
                                  answer |-> answer])
        /\ newArgs' = SuggestedArgs(answer)
        /\ rpc' = IF SuggestedArgs(answer).fail THEN "compare" ELSE "retry"
    /\ UNCHANGED <<replayFrame, now, result, learningData, backendCalls, learningFile,
                   updatedFile, summary, updatedLearning, cmdIdx, didReplay, replayRuns>>

\* The command is executed once more, with the new arguments.
ReplayRetry ==
    /\ rpc = "retry"
    /\ \E out \in RetryOutcomes(CurrentCommand.toolName) :
        LET r == executeMCPToolWithArgs(CurrentCommand.toolName, newArgs, out) IN
        /\ replayRuns' = Append(replayRuns, ReplayRun(newArgs, r))
        /\ backendCalls' = backendCalls \o r.called
        /\ result' = RetryResult(result, r)
    /\ newArgs' = ParseFailure
    /\ rpc' = "compare"
    /\ UNCHANGED <<replayFrame, now, learningData, learningFile, updatedFile, summary,
                   updatedLearning, cmdIdx, didReplay, analysisLog>>

\* The hashes are compared and the updated command joins the new ledger;
\* the loop pauses and continues.
ReplayCompare ==
    /\ rpc = "compare"
    /\ updatedLearning' = Append(updatedLearning, UpdatedCommand(CurrentCommand, result, now))
    /\ now' = now + 1
    /\ result' = <<>>
    /\ cmdIdx' = cmdIdx + 1
    /\ rpc' = NextCommand
    /\ UNCHANGED <<replayFrame, learningData, backendCalls, learningFile, updatedFile,
                   summary, newArgs, didReplay, replayRuns, analysisLog>>

\* Mutant: the new ledger is written over learning.json.
ReplaySaveOverwrites ==
    /\ rpc = "save"
    /\ \E writeOK \in BOOLEAN :
        learningFile' = IF writeOK THEN [kind |-> "commands", commands |-> updatedLearning]
                        ELSE learningFile
    /\ learningData' = updatedLearning
    /\ didReplay' = Executed
    /\ rpc' = "returned"
    /\ UNCHANGED <<replayFrame, now, result, backendCalls, updatedFile, summary,
                   updatedLearning, cmdIdx, newArgs, replayRuns, analysisLog>>

\* Mutant: the new ledger is written, and learningData stays as it was.
ReplaySaveKeepsLedger ==
    /\ rpc = "save"
    /\ \E writeOK \in BOOLEAN :
        updatedFile' = IF writeOK THEN [kind |-> "commands", commands |-> updatedLearning]
                       ELSE updatedFile
    /\ didReplay' = Executed
    /\ rpc' = "returned"
    /\ UNCHANGED <<replayFrame, now, result, learningData, backendCalls, learningFile, summary,
                   updatedLearning, cmdIdx, newArgs, replayRuns, analysisLog>>

\* The statements after the loop: the new ledger is written to
\* learning.json.updated (a write that fails is reported) and becomes
\* learningData.
ReplaySave ==
    /\ rpc = "save"
    /\ \E writeOK \in BOOLEAN :
        updatedFile' = IF writeOK THEN [kind |-> "commands", commands |-> updatedLearning]
                       ELSE updatedFile
    /\ learningData' = updatedLearning
    /\ didReplay' = Executed
    /\ rpc' = "returned"
    /\ UNCHANGED <<replayFrame, now, result, backendCalls, learningFile, summary,
                   updatedLearning, cmdIdx, newArgs, replayRuns, analysisLog>>

ReplayNext ==
    \/ ReplayLoad
    \/ ReplayExecute
    \/ ReplayAnalyse
    \/ ReplayRetry
    \/ ReplayCompare
    \/ ReplaySave

ReplaySpec == ReplayInit /\ [][ReplayNext]_vars

(* -------------------------------- main -------------------------------- *)

\* Commands in learning.json at the start of a session that goes on to a
\* conversation, and at the first start of a program that is started again.
MaxSessionEntries == 2
MaxRerunEntries == 2

\* Starts of the program that are followed.
MaxSessions == 2

\* existingCmd.Timestamp == cmd.Timestamp && existingCmd.ToolName == cmd.ToolName
IsDuplicate(commands, cmd) ==
    \E i \in 1..Len(commands) :
        commands[i].timestamp = cmd.timestamp /\ commands[i].toolName = cmd.toolName

\* recoverCommandsFromFiles: the command logs of the directory are read in
\* the order of their names; a command joins the ledger unless the ledger
\* holds one of the same timestamp and tool name.
RECURSIVE recoverCommandsFromFiles(_, _)
recoverCommandsFromFiles(commands, files) ==
    IF files = <<>> THEN commands
    ELSE recoverCommandsFromFiles(IF IsDuplicate(commands, Head(files).data)
                                  THEN commands
                                  ELSE Append(commands, Head(files).data),
                                  Tail(files))

\* learningData as saveLearningData writes it: an empty ledger is filled
\* from the command logs first.
RecoveredLedger ==
    IF tempCommandDir # "" /\ Len(learningData) = 0
    THEN recoverCommandsFromFiles(learningData, commandFiles)
    ELSE learningData

\* The files after saveLearningData(learningFile): learning.json holds the
\* ledger unless the write fails, which is reported.
saveLearningData(file, sibling, written, writeOK) ==
    [learning |-> IF writeOK THEN [kind |-> "commands", commands |-> written] ELSE file,
     updated |-> sibling]

\* The call of saveLearningData, as a part of the step of main that makes it.
SaveLedger ==
    /\ learningData' = RecoveredLedger
    /\ \E writeOK \in BOOLEAN :
        LET after == saveLearningData(learningFile, updatedFile, RecoveredLedger, writeOK) IN
        /\ learningFile' = after.learning
        /\ updatedFile' = after.updated

\* What a step of main leaves alone in the replay and in the environment.
mainFrame == <<program, plan, outcomes, patience, issued, tempCommandDir, writeFails, now,
               rpc, summary, updatedLearning, cmdIdx, newArgs, didReplay, replayRuns,
               analysisLog, session, commandFiles, execLog, backendCalls, farVars>>

\* The commands were replayed and the operator does not answer y: the
\* ledger is saved to learning.json and the program exits.
OperatorDeclines ==
    /\ pc = "replay"
    /\ rpc = "returned"
    /\ didReplay.flag
    /\ SaveLedger
    /\ pc' = "exited"
    /\ UNCHANGED connVars
    /\ UNCHANGED <<mainFrame, iteration, retryCount, err, slept, attempts, messages, resp,
                   callIdx, result, finalResponse, initialLoginPromptShown>>

\* Nothing was replayed, or the operator answers y: sendChatRequest is
\* called and sets up its conversation.
StartChat ==
    /\ pc = "replay"
    /\ rpc = "returned"
    /\ messages' = << Message("system", <<"system prompt">>, <<>>, 0),
                      Message("user", <<"task">>, <<>>, 0) >>
    /\ finalResponse' = <<"Tool Execution Flow">>
    /\ iteration' = 0
    /\ pc' = "loop"
    /\ UNCHANGED <<mainFrame, connVars, learningData, learningFile, updatedFile, retryCount, err,
                   slept, attempts, resp, callIdx, result, initialLoginPromptShown>>

\* sendChatRequest has returned its transcript: the ledger is saved to
\* learning.json and main returns, which runs the deferred session.Close().
MainSaves ==
    /\ pc = "done"
    /\ SaveLedger
    /\ pc' = "exited"
    /\ globalMCPSession' = "closed"
    /\ closeCalls' = closeCalls + 1
    /\ UNCHANGED <<mainFrame, iteration, retryCount, err, slept, attempts, messages, resp,
                   callIdx, result, finalResponse, initialLoginPromptShown>>

\* sendChatRequest has returned an error: log.Fatalf ends the program; nothing
\* is saved and no deferred call runs.
MainFatal ==
    /\ pc = "failed"
    /\ pc' = "exited"
    /\ UNCHANGED <<mainFrame, connVars, learningData, learningFile, updatedFile, iteration,
                   retryCount, err, slept, attempts, messages, resp, callIdx, result,
                   finalResponse, initialLoginPromptShown>>

\* learning.json at the start of a session that goes on to a conversation: no
\* usable file, or the record of at most MaxSessionEntries commands of a session
\* that navigated, clicked a button and took screenshots, in turns.
SessionTools == <<"navigate", "click_button", "screenshot">>

SessionFiles ==
    {f \in LedgerFiles :
        /\ Len(f.commands) <= MaxSessionEntries
        /\ \A i \in 1..Len(f.commands) :
               f.commands[i].toolName = SessionTools[((i - 1) % 3) + 1]}

\* A session of autobrowser: the model service asks for one call in a turn, and
\* for more than one turn only when nothing is replayed.
MainInit ==
    /\ program = "autobrowser"
    /\ plan \in {p \in Plans : Len(p) = 1 /\ p[1].args # JsonDecoy}
    /\ outcomes \in PlanOutcomes(program, plan)
    /\ patience \in {1, autoMaxIterations}
    /\ tempCommandDir \in {"", CommandDir}
    /\ writeFails = FALSE
    /\ now = 1
    /\ learningFile \in SessionFiles
    /\ learningFile.commands # <<>> => patience = 1
    /\ issued = 0
    /\ pc = "replay"
    /\ iteration = 0
    /\ retryCount = 0
    /\ err = NoError
    /\ slept = <<>>
    /\ attempts = 0
    /\ messages = <<>>
    /\ resp = NoMessage
    /\ callIdx = 0
    /\ result = <<>>
    /\ finalResponse = <<>>
    /\ initialLoginPromptShown = FALSE
    /\ learningData = <<>>
    /\ commandFiles = <<>>
    /\ execLog = <<>>
    /\ backendCalls = <<>>
    /\ updatedFile = NoFile
    /\ rpc = "start"
    /\ summary = <<>>
    /\ updatedLearning = <<>>
    /\ cmdIdx = 0
    /\ newArgs = ParseFailure
    /\ didReplay = NotExecuted
    /\ replayRuns = <<>>
    /\ analysisLog = <<>>
    /\ session = 1
    /\ FarIdle
    /\ Connected

\* autobrowser has no manual-login pause.
MainNext ==
    \/ ReplayNext
    \/ OperatorDeclines
    \/ StartChat
    \/ BeginIteration
    \/ LoopExit
    \/ ModelFails
    \/ NoChoices
    \/ ModelCallsTools
    \/ ModelStops
    \/ ExecTool
    \/ AnswerTool
    \/ EndIteration
    \/ MainSaves
    \/ MainFatal

MainSpec == MainInit /\ [][MainNext]_vars

\* Every command of the pass was executed once and reported as matching
\* its previous execution.
ReportedUnchanged ==
    /\ Len(replayRuns) = Len(summary)
    /\ \A k \in 1..Len(replayRuns) :
        /\ ~replayRuns[k].err
        /\ calculateHash(replayRuns[k].text) = calculateHash(summary[replayRuns[k].entry].result)

\* The program is started again after a pass that reported no change:
\* learningData is emptied, a command-log directory of its own is set up
\* and executeStoredCommands is called on the learning.json that is there.
NextSession ==
    /\ pc = "exited"
    /\ session < MaxSessions
    /\ ReportedUnchanged
    /\ session' = session + 1
    /\ now' = now + 1
    /\ learningData' = <<>>
    /\ commandFiles' = <<>>
    /\ backendCalls' = <<>>
    /\ pc' = "replay"
    /\ rpc' = "start"
    /\ summary' = <<>>
    /\ updatedLearning' = <<>>
    /\ cmdIdx' = 0
    /\ didReplay' = NotExecuted
    /\ replayRuns' = <<>>
    /\ analysisLog' = <<>>
    /\ globalMCPSession' = "open"
    /\ closeCalls' = 0
    /\ UNCHANGED <<program, plan, outcomes, patience, issued, tempCommandDir, writeFails,
                   iteration, retryCount, err, slept, attempts, messages, resp, callIdx,
                   result, finalResponse, initialLoginPromptShown, execLog, learningFile,
                   updatedFile, newArgs, farVars>>

\* A command recorded with a result that carries the backend's error flag.
FlaggedCommand ==
    Invocation("click_button", Unmarshal(JsonSelector),
               MarshalIndent(BackendResultOf("click_button", "toolerr")), 0)

\* learning.json at the first start of a program that is started again.
RerunFiles ==
    {f \in LedgerFiles : f.kind # "commands"}
    \cup {[kind |-> "commands", commands |-> c] :
            c \in SeqsUpTo(RecordedCommands \cup {FlaggedCommand}, MaxRerunEntries)}

\* The program is run to replay only, and again: a learning.json of at
\* most MaxRerunEntries commands is there at the first start.
RerunInit ==
    /\ program = "autobrowser"
    /\ plan = <<>>
    /\ outcomes = <<>>
    /\ patience = 0
    /\ tempCommandDir = CommandDir
    /\ writeFails = FALSE
    /\ now = 1
    /\ issued = 0
    /\ pc = "replay"
    /\ iteration = 0
    /\ retryCount = 0
    /\ err = NoError
    /\ slept = <<>>
    /\ attempts = 0
    /\ messages = <<>>
    /\ resp = NoMessage
    /\ callIdx = 0
    /\ result = <<>>
    /\ finalResponse = <<>>
    /\ initialLoginPromptShown = FALSE
    /\ learningData = <<>>
    /\ commandFiles = <<>>
    /\ execLog = <<>>
    /\ backendCalls = <<>>
    /\ learningFile \in RerunFiles
    /\ updatedFile = NoFile
    /\ rpc = "start"
    /\ summary = <<>>
    /\ updatedLearning = <<>>
    /\ cmdIdx = 0
    /\ newArgs = ParseFailure
    /\ didReplay = NotExecuted
    /\ replayRuns = <<>>
    /\ analysisLog = <<>>
    /\ session = 1
    /\ FarIdle
    /\ Connected

RerunNext ==
    \/ ReplayNext
    \/ OperatorDeclines
    \/ NextSession

RerunSpec == RerunInit /\ [][RerunNext]_vars

(* ---------------------------- other programs -------------------------- *)

\* No client program is at work.
ClientIdle ==
    /\ program = "autobrowser"
    /\ plan = <<>>
    /\ outcomes = <<>>
    /\ patience = 0
    /\ tempCommandDir = ""
    /\ writeFails = FALSE
    /\ now = 0
    /\ issued = 0
    /\ pc = "idle"
    /\ iteration = 0
    /\ retryCount = 0
    /\ err = NoError
    /\ slept = <<>>
    /\ attempts = 0
    /\ messages = <<>>
    /\ resp = NoMessage
    /\ callIdx = 0
    /\ result = <<>>
    /\ finalResponse = <<>>
    /\ initialLoginPromptShown = FALSE
    /\ learningData = <<>>
    /\ commandFiles = <<>>
    /\ execLog = <<>>
    /\ backendCalls = <<>>
    /\ learningFile = NoFile
    /\ updatedFile = NoFile
    /\ rpc = "returned"
    /\ summary = <<>>
    /\ updatedLearning = <<>>
    /\ cmdIdx = 0
    /\ newArgs = ParseFailure
    /\ didReplay = NotExecuted
    /\ replayRuns = <<>>
    /\ analysisLog = <<>>
    /\ session = 1

(* ------------------- recovery from the command logs ------------------ *)

\* Largest number of command logs in the directory.
MaxRecords == 3

\* The successful calls of the process that wrote the command logs.
RecoveryCalls ==
    { [name |-> "navigate", args |-> JsonExample],
      [name |-> "navigate", args |-> JsonCanva],
      [name |-> "click_button", args |-> JsonSelector] }

\* autobrowser runs with its directory of command logs, nothing recorded yet.
RecoveryInit ==
    /\ program = "autobrowser"
    /\ plan = <<>>
    /\ outcomes = <<>>
    /\ patience = 0
    /\ tempCommandDir = CommandDir
    /\ writeFails = FALSE
    /\ now = 1
    /\ issued = 0
    /\ pc = "running"
    /\ iteration = 0
    /\ retryCount = 0
    /\ err = NoError
    /\ slept = <<>>
    /\ attempts = 0
    /\ messages = <<>>
    /\ resp = NoMessage
    /\ callIdx = 0
    /\ result = <<>>
    /\ finalResponse = <<>>
    /\ initialLoginPromptShown = FALSE
    /\ learningData = <<>>
    /\ commandFiles = <<>>
    /\ execLog = <<>>
    /\ backendCalls = <<>>
    /\ learningFile = NoFile
    /\ updatedFile = NoFile
    /\ rpc = "returned"
    /\ summary = <<>>
    /\ updatedLearning = <<>>
    /\ cmdIdx = 0
    /\ newArgs = ParseFailure
    /\ didReplay = NotExecuted
    /\ replayRuns = <<>>
    /\ analysisLog = <<>>
    /\ session = 1
    /\ FarIdle
    /\ Connected

recoveryFrame ==
    UNCHANGED <<program, plan, outcomes, patience, issued, tempCommandDir, writeFails,
                iteration, retryCount, err, slept, attempts, messages, resp, callIdx, result,
                finalResponse, initialLoginPromptShown, execLog, backendCalls, replayVars,
                restVars>>

\* executeMCPTool after a call that succeeded, in the same second as the call
\* before or in a later one: the invocation joins the ledger and gets its file.
RecordInvocation ==
    /\ pc = "running"
    /\ Len(commandFiles) < MaxRecords
    /\ \E call \in RecoveryCalls, t \in {now, now + 1} :
        LET invocation == Invocation(call.name, Unmarshal(call.args),
                                     MarshalIndent(BackendResult(call.name)), t)
        IN  /\ learningData' = AppendCommand(learningData, <<invocation>>)
            /\ commandFiles' = saveCommandToFile(commandFiles, invocation,
                                                 Len(commandFiles) + 1, TRUE)
            /\ now' = t
    /\ UNCHANGED <<pc, learningFile, updatedFile>>
    /\ recoveryFrame

\* The process dies and is started again with the same directory: the ledger in
\* memory is gone, the command logs are there.
CrashAndRestart ==
    /\ pc = "running"
    /\ learningData' = <<>>
    /\ pc' = "restarted"
    /\ UNCHANGED <<now, commandFiles, learningFile, updatedFile>>
    /\ recoveryFrame

\* saveLearningData of the process that was started again.
SaveAfterRestart ==
    /\ pc = "restarted"
    /\ SaveLedger
    /\ pc' = "saved"
    /\ UNCHANGED <<now, commandFiles>>
    /\ recoveryFrame

RecoveryNext ==
    \/ RecordInvocation
    \/ CrashAndRestart
    \/ SaveAfterRestart

RecoverySpec == RecoveryInit /\ [][RecoveryNext]_vars

(* ------------------------ convertToOpenAITools ------------------------ *)

\* Largest number of tools in a catalog.
MaxTools == 2

\* t.InputSchema: a nil pointer, a schema json.Marshal rejects, a schema
\* whose JSON is not an object, or a schema with its type, properties and
\* required fields; an empty field is one the schema does not have.
InputSchemas ==
    {[kind |-> "nil"], [kind |-> "invalid"], [kind |-> "notObject"]}
    \cup [kind : {"schema"}, Type : {"", "object", "string"},
          Properties : {{}, {"url"}}, Required : {<<>>, <<"url">>}]

\* The tools a backend can list.
McpTools ==
    [Name : {"navigate", "click"}, Description : {<<>>, <<"Navigate to a URL">>},
     InputSchema : InputSchemas]

\* json.Marshal(t.InputSchema): the members of the JSON object in the
\* order of the fields, without the fields that are empty.
MarshalSchema(schema) ==
    IF schema.kind = "invalid" THEN [err |-> TRUE, bytes |-> <<>>]
    ELSE IF schema.kind = "notObject" THEN [err |-> FALSE, bytes |-> <<"true">>]
    ELSE [err |-> FALSE,
          bytes |-> <<"{">>
                    \o (IF schema.Type # "" THEN <<<<"type", schema.Type>>>> ELSE <<>>)
                    \o (IF schema.Properties # {}
                        THEN <<<<"properties", schema.Properties>>>> ELSE <<>>)
                    \o (IF schema.Required # <<>>
                        THEN <<<<"required", schema.Required>>>> ELSE <<>>)
                    \o <<"}">>]

\* The members between the braces of a JSON object.
Members(bytes) == SubSeq(bytes, 2, Len(bytes) - 1)

\* json.Unmarshal(schemaBytes, &schemaMap): the map from the member names
\* to the member values; JSON that is not an object is an error.
UnmarshalSchema(bytes) ==
    IF bytes = <<>> \/ bytes[1] # "{" THEN [err |-> TRUE, schemaMap |-> <<>>]
    ELSE LET members == Members(bytes) IN
         [err |-> FALSE,
          schemaMap |-> [key \in {members[i][1] : i \in 1..Len(members)} |->
                            LET i == CHOOSE i \in 1..Len(members) : members[i][1] = key
                            IN members[i][2]]]

\* Mutant: the type and the properties are set whether they are there or not.
WithRequiredFieldsAlways(schemaMap) ==
    [key \in DOMAIN schemaMap \cup {"type", "properties"} |->
        IF key = "type" THEN "object"
        ELSE IF key = "properties" THEN {}
        ELSE schemaMap[key]]

\* schemaMap["type"] = "object" and schemaMap["properties"] = {} where the
\* key is missing.
WithRequiredFields(schemaMap) ==
    [key \in DOMAIN schemaMap \cup {"type", "properties"} |->
        IF key \in DOMAIN schemaMap THEN schemaMap[key]
        ELSE IF key = "type" THEN "object"
        ELSE {}]

\* description: t.Description, or a sentence made from the name.
DescriptionOf(t) ==
    IF t.Description = <<>> THEN <<"Use this tool to ", t.Name>> ELSE t.Description

\* The body of the loop for the tool t: the tools appended to the result.
ConvertTool(t) ==
    IF t.InputSchema.kind = "nil" THEN <<>>
    ELSE LET marshalled == MarshalSchema(t.InputSchema) IN
         IF marshalled.err THEN <<>>
         ELSE LET parsed == UnmarshalSchema(marshalled.bytes) IN
              IF parsed.err THEN <<>>
              ELSE << [Type |-> "function",
                       Function |-> [Name |-> t.Name,
                                     Description |-> DescriptionOf(t),
                                     Parameters |-> WithRequiredFields(parsed.schemaMap)]] >>

RECURSIVE convertToOpenAITools(_)
convertToOpenAITools(catalog) ==
    IF catalog = <<>> THEN <<>>
    ELSE ConvertTool(Head(catalog)) \o convertToOpenAITools(Tail(catalog))

\* The backend has listed its tools.
AdapterInit ==
    /\ ClientIdle
    /\ ResolverIdle
    /\ ServerIdle
    /\ FormIdle
    /\ ConnIdle
    /\ NormIdle
    /\ mcpTools \in SeqsUpTo(McpTools, MaxTools)
    /\ openaiTools = <<>>
    /\ apc = "listed"

\* tools := convertToOpenAITools(mcpTools)
ConvertCatalog ==
    /\ apc = "listed"
    /\ openaiTools' = convertToOpenAITools(mcpTools)
    /\ apc' = "converted"
    /\ UNCHANGED <<clientVars, mcpTools, resolverVars, serverVars, formVars, connVars, normVars>>

AdapterSpec == AdapterInit /\ [][ConvertCatalog]_vars

(* -------------------- cdpbrowser: element targeting ------------------- *)

\* The selectors the tools are called with: a label, a part of a label, an
\* identifier with and without the number sign, a text with a space, a
\* text with a number sign inside, a tag name and a broken selector.
Search == <<"S", "e", "a", "r", "c", "h">>
Sear == <<"S", "e", "a", "r">>
LoginBtn == <<"l", "o", "g", "i", "n", "-", "b", "t", "n">>
HashLoginBtn == <<"#">> \o LoginBtn
LogIn == <<"L", "o", "g", " ", "i", "n">>
GoHashX == <<"g", "o", "#", "x">>
Anchor == <<"a">>
OpenBracket == <<"a", "[">>

Selectors == {Search, Sear, LoginBtn, HashLoginBtn, LogIn, GoHashX, Anchor, OpenBracket}

Button == <<"b", "u", "t", "t", "o", "n">>
Input == <<"i", "n", "p", "u", "t">>

Element(tag, id, ariaLabel, name, placeholder, text, value, visible) ==
    [tag |-> tag, id |-> id, ariaLabel |-> ariaLabel, name |-> name,
     placeholder |-> placeholder, text |-> text, value |-> value, visible |-> visible]

\* The elements a page can have, in document order; an empty attribute is
\* an attribute the element does not have.
Document ==
    << Element(Button, <<>>, Search, <<>>, <<>>, <<"G", "o">>, <<>>, FALSE),
       Element(Anchor, <<>>, <<>>, <<>>, <<>>, Search, <<>>, TRUE),
       Element(Button, <<>>, Search, <<>>, <<>>, Search, <<>>, TRUE),
       Element(Input, <<>>, <<>>, <<"q">>, Search, <<>>, <<>>, TRUE),
       Element(Button, LoginBtn, <<>>, <<>>, <<>>, LogIn, <<>>, TRUE),
       Element(Input, <<>>, Search \o <<" ", "b", "o", "x">>, LoginBtn, <<>>, <<>>, Search, TRUE) >>

\* The pages: what of the document is there.
Pages == SUBSET (DOMAIN Document)

\* strings.HasPrefix(s, prefix)
HasPrefix(s, prefix) == Len(s) >= Len(prefix) /\ SubSeq(s, 1, Len(prefix)) = prefix

\* The pieces of the format strings between which fmt.Sprintf puts the selector.
OpeningTokens ==
    {"[aria-label=\"", "[aria-label*=\"", "[name=\"", "[placeholder=\"",
     "//button[text()=\"", "\"] | //a[text()=\"", "\"] | //input[@value=\"", "//a[text()=\"",
     "//button[contains(text(), \"", "\")] | //a[contains(text(), \"",
     "\")] | //input[contains(@value, \""}

ClosingTokens == {"\"]", "\")]"}

IsChar(token) == token \notin OpeningTokens \cup ClosingTokens

\* fmt.Sprintf of the locators.
AriaSelector(selector) == <<"[aria-label=\"">> \o selector \o <<"\"]">>
IdSelector(selector) == <<"#">> \o selector
PartialAriaSelector(selector) == <<"[aria-label*=\"">> \o selector \o <<"\"]">>
NameSelector(selector) == <<"[name=\"">> \o selector \o <<"\"]">>
PlaceholderSelector(selector) == <<"[placeholder=\"">> \o selector \o <<"\"]">>
TextXPath(selector) ==
    <<"//button[text()=\"">> \o selector \o <<"\"] | //a[text()=\"">> \o selector
    \o <<"\"] | //input[@value=\"">> \o selector \o <<"\"]">>
PartialTextXPath(selector) ==
    <<"//button[contains(text(), \"">> \o selector \o <<"\")] | //a[contains(text(), \"">>
    \o selector \o <<"\")] | //input[contains(@value, \"">> \o selector \o <<"\")]">>
ButtonTextXPath(selector) ==
    <<"//button[text()=\"">> \o selector \o <<"\"] | //input[@value=\"">> \o selector
    \o <<"\"]">>
LinkTextXPath(selector) == <<"//a[text()=\"">> \o selector \o <<"\"]">>

\* The characters at the start of a locator, up to its next token.
RECURSIVE LeadingChars(_)
LeadingChars(loc) ==
    IF loc = <<>> \/ ~IsChar(Head(loc)) THEN <<>>
    ELSE <<Head(loc)>> \o LeadingChars(Tail(loc))

\* The browser reads a locator of attribute tests or of paths: its
\* alternatives, each an opening token and the quoted text.
RECURSIVE ParseAlternatives(_)
ParseAlternatives(loc) ==
    IF loc = <<>> THEN <<>>
    ELSE IF Head(loc) \in ClosingTokens THEN ParseAlternatives(Tail(loc))
    ELSE LET arg == LeadingChars(Tail(loc)) IN
         <<[open |-> Head(loc), arg |-> arg]>>
         \o ParseAlternatives(SubSeq(loc, 2 + Len(arg), Len(loc)))

\* The browser's test of one alternative on an element.
Satisfies(e, alt) ==
    CASE alt.open = "[aria-label=\"" -> e.ariaLabel = alt.arg
      [] alt.open = "[aria-label*=\"" -> e.ariaLabel # <<>> /\ Contains(e.ariaLabel, alt.arg)
      [] alt.open = "[name=\"" -> e.name = alt.arg
      [] alt.open = "[placeholder=\"" -> e.placeholder = alt.arg
      [] alt.open = "//button[text()=\"" -> e.tag = Button /\ e.text = alt.arg
      [] alt.open \in {"\"] | //a[text()=\"", "//a[text()=\""} ->
            e.tag = Anchor /\ e.text = alt.arg
      [] alt.open = "\"] | //input[@value=\"" -> e.tag = Input /\ e.value = alt.arg
      [] alt.open = "//button[contains(text(), \"" ->
            e.tag = Button /\ e.text # <<>> /\ Contains(e.text, alt.arg)
      [] alt.open = "\")] | //a[contains(text(), \"" ->
            e.tag = Anchor /\ e.text # <<>> /\ Contains(e.text, alt.arg)
      [] alt.open = "\")] | //input[contains(@value, \"" ->
            e.tag = Input /\ e.value # <<>> /\ Contains(e.value, alt.arg)
      [] OTHER -> FALSE

\* A selector text without the characters that end an identifier.
IsIdent(s) ==
    /\ s # <<>>
    /\ \A i \in 1..Len(s) : s[i] \notin {"#", ".", "[", "]", " "}

\* The browser rejects a selector with a bracket that is not closed.
ValidCSS(s) == (\E i \in 1..Len(s) : s[i] = "[") => (\E i \in 1..Len(s) : s[i] = "]")

\* The browser's test of a selector given as it is: an identifier with the
\* number sign, or a tag name.
SatisfiesCSS(e, s) ==
    \/ s[1] = "#" /\ IsIdent(Tail(s)) /\ e.id = Tail(s)
    \/ IsIdent(s) /\ e.tag = s

\* chromedp.Nodes(loc, &nodes, by): an error, or the elements found.  By
\* query the browser gives the first element of the document that
\* satisfies the locator, by search all of them.
Nodes(pg, loc, by) ==
    IF IsChar(loc[1]) /\ ~ValidCSS(loc) THEN [err |-> TRUE, nodes |-> {}]
    ELSE LET alts == ParseAlternatives(loc)
             found == IF IsChar(loc[1])
                      THEN {i \in pg : SatisfiesCSS(Document[i], loc)}
                      ELSE {i \in pg : \E k \in 1..Len(alts) : Satisfies(Document[i], alts[k])}
         IN [err |-> FALSE,
             nodes |-> IF by = "query"
                       THEN {i \in found : \A j \in found : i <= j}
                       ELSE found]

\* chromedp.Run(WaitVisible(loc, by), Click(loc, by)) returns no error:
\* elements are found, and they are visible.
ClickOn(pg, loc, by) ==
    LET r == Nodes(pg, loc, by) IN
    ~r.err /\ r.nodes # {} /\ \A i \in r.nodes : Document[i].visible

\* The test of strategy 3: "If it looks like an ID".
LooksLikeID(selector) ==
    /\ ~HasPrefix(selector, <<"#">>)
    /\ ~Contains(selector, <<".">>)
    /\ ~Contains(selector, <<"[">>)
    /\ ~Contains(selector, <<" ">>)

Strategy(n, loc, by) == [strategy |-> n, locator |-> loc, by |-> by]

\* Mutant: the text strategies come before the attribute strategies.
StrategiesTextFirst(selector) ==
    << Strategy(7, TextXPath(selector), "search"),
       Strategy(8, PartialTextXPath(selector), "search"),
       Strategy(1, AriaSelector(selector), "query"),
       Strategy(2, selector, "query") >>
    \o (IF LooksLikeID(selector)
        THEN <<Strategy(3, IdSelector(selector), "query")>> ELSE <<>>)
    \o << Strategy(4, PartialAriaSelector(selector), "query"),
          Strategy(5, NameSelector(selector), "query"),
          Strategy(6, PlaceholderSelector(selector), "query") >>

\* The strategies of findElementWithSmartSelector for a selector, in the
\* order of the code.
Strategies(selector) ==
    << Strategy(1, AriaSelector(selector), "query"),
       Strategy(2, selector, "query") >>
    \o (IF LooksLikeID(selector)
        THEN <<Strategy(3, IdSelector(selector), "query")>> ELSE <<>>)
    \o << Strategy(4, PartialAriaSelector(selector), "query"),
          Strategy(5, NameSelector(selector), "query"),
          Strategy(6, PlaceholderSelector(selector), "query"),
          Strategy(7, TextXPath(selector), "search"),
          Strategy(8, PartialTextXPath(selector), "search") >>

\* err == nil && len(nodes) > 0
Found(pg, s) ==
    LET r == Nodes(pg, s.locator, s.by) IN ~r.err /\ r.nodes # {}

Attempt(s, matched) == [strategy |-> s.strategy, locator |-> s.locator, matched |-> matched]

\* Mutant: when no strategy worked, the selector is returned without an error.
AllStrategiesFailedSilently(selector, tried) ==
    [locator |-> selector, err |-> FALSE, tried |-> tried]

\* "If no strategy worked, return original selector and let ChromeDP
\* handle the error".
AllStrategiesFailed(selector, tried) ==
    [locator |-> selector, err |-> TRUE, tried |-> tried]

\* The strategies are tried one after the other; the first that finds
\* elements gives the locator.
RECURSIVE TryStrategies(_, _, _, _)
TryStrategies(pg, selector, rest, tried) ==
    IF rest = <<>> THEN AllStrategiesFailed(selector, tried)
    ELSE IF Found(pg, Head(rest))
    THEN [locator |-> Head(rest).locator, err |-> FALSE,
          tried |-> Append(tried, Attempt(Head(rest), TRUE))]
    ELSE TryStrategies(pg, selector, Tail(rest), Append(tried, Attempt(Head(rest), FALSE)))

findElementWithSmartSelector(pg, selector) ==
    TryStrategies(pg, selector, Strategies(selector), <<>>)

\* strings.HasPrefix(smartSelector, "//")
IsXPath(loc) ==
    \/ loc[1] \in {"//button[text()=\"", "//a[text()=\"", "//button[contains(text(), \""}
    \/ HasPrefix(loc, <<"/", "/">>)

ClickAttempt(pg, loc, by) == [locator |-> loc, by |-> by, ok |-> ClickOn(pg, loc, by)]

\* The clicks ClickButton and ClickLink make, in order: with the locator
\* of findElementWithSmartSelector when it found one, then with the
\* selector as it is, then with the text path; a click that succeeds is
\* the last.
ClickAttempts(pg, selector, smart, textXPath) ==
    LET first == IF smart.err THEN <<>>
                 ELSE <<ClickAttempt(pg, smart.locator,
                                     IF IsXPath(smart.locator) THEN "search" ELSE "query")>>
        second == ClickAttempt(pg, selector, "query")
        third == ClickAttempt(pg, textXPath, "search")
    IN
    IF first # <<>> /\ first[1].ok THEN first
    ELSE IF second.ok THEN first \o <<second>>
    ELSE first \o <<second, third>>

\* Mutant: the result carries the error flag when any click failed.
ClickResultStrict(clicks, selector, noun) ==
    IF \E k \in 1..Len(clicks) : ~clicks[k].ok
    THEN [isError |-> TRUE, text |-> <<"Error clicking ", noun, " ">> \o selector]
    ELSE [isError |-> FALSE,
          text |-> <<"Clicked ", noun, ": ">> \o clicks[Len(clicks)].locator]

\* The CallToolResult: the error flag when the last click failed as well.
ClickResult(clicks, selector, noun) ==
    IF ~clicks[Len(clicks)].ok
    THEN [isError |-> TRUE, text |-> <<"Error clicking ", noun, " ">> \o selector]
    ELSE [isError |-> FALSE,
          text |-> <<"Clicked ", noun, ": ">> \o clicks[Len(clicks)].locator]

\* No tool has been called on the page.
ResolverInit ==
    /\ ClientIdle
    /\ AdapterIdle
    /\ ServerIdle
    /\ FormIdle
    /\ ConnIdle
    /\ NormIdle
    /\ page \in Pages
    /\ clickTool = "none"
    /\ clickArg = <<>>
    /\ resolution = [locator |-> <<>>, err |-> FALSE, tried |-> <<>>]
    /\ clickAttempts = <<>>
    /\ toolResult = [isError |-> FALSE, text |-> <<>>]
    /\ FormIdle

\* The handler of click_button.
ClickButton ==
    \E selector \in Selectors :
        LET smart == findElementWithSmartSelector(page, selector)
            clicks == ClickAttempts(page, selector, smart, ButtonTextXPath(selector))
        IN
        /\ clickTool' = "click_button"
        /\ clickArg' = selector
        /\ resolution' = smart
        /\ clickAttempts' = clicks
        /\ toolResult' = ClickResult(clicks, selector, "button")
        /\ UNCHANGED <<clientVars, adapterVars, page, serverVars, formVars, connVars, normVars>>

\* The handler of click_link.
ClickLink ==
    \E selector \in Selectors :
        LET smart == findElementWithSmartSelector(page, selector)
            clicks == ClickAttempts(page, selector, smart, LinkTextXPath(selector))
        IN
        /\ clickTool' = "click_link"
        /\ clickArg' = selector
        /\ resolution' = smart
        /\ clickAttempts' = clicks
        /\ toolResult' = ClickResult(clicks, selector, "link")
        /\ UNCHANGED <<clientVars, adapterVars, page, serverVars, formVars, connVars, normVars>>

ResolverNext ==
    \/ ClickButton
    \/ ClickLink

ResolverSpec == ResolverInit /\ [][ResolverNext]_vars

(* ------------------------ results of tool calls ----------------------- *)

\* Largest number of content items in a result.
MaxItems == 2

\* The content items of a result: texts, images, and an item of another type.
ContentItems ==
    { [type |-> "text", text |-> <<"done">>],
      [type |-> "text", text |-> <<"0x89">>],
      [type |-> "image", mimeType |-> "image/png", data |-> <<"0x89", "0x50", "0x89">>],
      [type |-> "image", mimeType |-> "image/jpeg", data |-> <<>>],
      [type |-> "audio"] }

CallToolResults ==
    {[content |-> c, isError |-> e] : c \in SeqsUpTo(ContentItems, MaxItems), e \in BOOLEAN}

\* mcpSession.CallTool has returned a result.
NormInit ==
    /\ ClientIdle
    /\ AdapterIdle
    /\ ResolverIdle
    /\ ServerIdle
    /\ FormIdle
    /\ ConnIdle
    /\ callResult \in CallToolResults
    /\ executor = "none"
    /\ normalized = <<>>

normFrame ==
    UNCHANGED <<clientVars, adapterVars, resolverVars, serverVars, formVars, connVars,
                callResult>>

\* executeMCPTool of voicebrowser converts the result.
ConvertVoice ==
    /\ executor = "none"
    /\ executor' = "voicebrowser"
    /\ normalized' = ContentText(callResult.content)
    /\ normFrame

\* executeMCPToolWithArgs of autobrowser converts the result.
ConvertAuto ==
    /\ executor = "none"
    /\ executor' = "autobrowser"
    /\ normalized' = MarshalIndent(callResult)
    /\ normFrame

NormNext ==
    \/ ConvertVoice
    \/ ConvertAuto

NormSpec == NormInit /\ [][NormNext]_vars

(* ----------------------- cdpbrowser: form filling ---------------------- *)

\* The "checked" member of a choose_option request: left out, true or false.
CheckedValues == {"unset", "true", "false"}

\* json.Unmarshal into ChooseOptionArgs.Checked, a bool: false when left out.
DecodeChecked(json) == json = "true"

\* ChooseOption: checked, after "default to true if not specified".
ChooseOptionChecked(arg) == IF ~arg /\ arg = FALSE THEN TRUE ELSE arg

\* fmt.Sprintf("%t", b)
FormatBool(b) == IF b THEN "true" ELSE "false"

\* The texts typed and the values selected.
FormTexts == {<<"h", "i">>}

\* findElementWithSmartSelector was not called.
NoResolution == [locator |-> <<>>, err |-> FALSE, tried |-> <<>>]

Write(pg, selector, attr, value) ==
    [node |-> CHOOSE i \in Nodes(pg, selector, "query").nodes : TRUE,
     attr |-> attr, value |-> value]

\* chromedp.Run(s.ctx, WaitVisible(selector, ByQuery),
\*              SetAttributeValue(selector, attr, value, ByQuery))
SetAttributeValue(pg, selector, attr, value) ==
    IF ClickOn(pg, selector, "query")
    THEN [err |-> FALSE, effect |-> <<Write(pg, selector, attr, value)>>]
    ELSE [err |-> TRUE, effect |-> <<>>]

formFrame == UNCHANGED <<clientVars, adapterVars, serverVars, connVars, normVars, page>>

\* The handler of type_text.
TypeText ==
    \E selector \in Selectors, text \in FormTexts, clear \in BOOLEAN :
        LET r == Nodes(page, selector, "query") IN
        /\ clickTool' = "type_text"
        /\ clickArg' = selector
        /\ formArgs' = [text |-> text, clear |-> clear]
        /\ resolution' = NoResolution
        /\ clickAttempts' = <<>>
        /\ IF r.err
           THEN /\ pageEffect' = <<>>
                /\ toolResult' = [isError |-> TRUE,
                                  text |-> <<"Element query failed for ">> \o selector]
           ELSE IF r.nodes = {}
           THEN /\ pageEffect' = <<>>
                /\ toolResult' = [isError |-> TRUE,
                                  text |-> <<"No elements found with selector: ">> \o selector]
           ELSE IF ~ClickOn(page, selector, "query")
           THEN /\ pageEffect' = <<>>
                /\ toolResult' = [isError |-> TRUE,
                                  text |-> <<"Element not visible ">> \o selector]
           ELSE /\ pageEffect' = (IF clear THEN <<Write(page, selector, "value", <<>>)>>
                                  ELSE <<>>)
                                 \o <<Write(page, selector, "keys", text)>>
                /\ toolResult' = [isError |-> FALSE,
                                  text |-> <<"Typed \"">> \o text
                                           \o <<"\" into element: ">> \o selector]
        /\ formFrame

\* The handler of select_dropdown.
SelectDropdown ==
    \E selector \in Selectors, value \in FormTexts :
        LET r == SetAttributeValue(page, selector, "value", value) IN
        /\ clickTool' = "select_dropdown"
        /\ clickArg' = selector
        /\ formArgs' = [value |-> value]
        /\ resolution' = NoResolution
        /\ clickAttempts' = <<>>
        /\ pageEffect' = r.effect
        /\ toolResult' =
            IF r.err
            THEN [isError |-> TRUE,
                  text |-> <<"Error selecting option \"">> \o value
                           \o <<"\" from dropdown ">> \o selector]
            ELSE [isError |-> FALSE,
                  text |-> <<"Selected option \"">> \o value
                           \o <<"\" from dropdown: ">> \o selector]
        /\ formFrame

\* The handler of choose_option.
ChooseOption ==
    \E selector \in Selectors, json \in CheckedValues :
        LET checked == ChooseOptionChecked(DecodeChecked(json))
            r == SetAttributeValue(page, selector, "checked", FormatBool(checked))
        IN
        /\ clickTool' = "choose_option"
        /\ clickArg' = selector
        /\ formArgs' = [checked |-> json]
        /\ resolution' = NoResolution
        /\ clickAttempts' = <<>>
        /\ pageEffect' = r.effect
        /\ toolResult' =
            IF r.err
            THEN [isError |-> TRUE,
                  text |-> <<"Error setting option ">> \o selector
                           \o <<" to ", FormatBool(checked)>>]
            ELSE [isError |-> FALSE,
                  text |-> <<"Option ", IF checked THEN "checked" ELSE "unchecked", ": ">>
                           \o selector]
        /\ formFrame

\* The five form tools, called one after another on a page.
FormNext ==
    \/ TypeText
    \/ ClickButton
    \/ ClickLink
    \/ SelectDropdown
    \/ ChooseOption

\* The pages of forms: of the document, the elements labelled "Search", the
\* input fields and the element with an id.
FormInit ==
    /\ ResolverInit
    /\ \A i \in page : \/ Document[i].ariaLabel = Search
                       \/ Document[i].tag = Input
                       \/ Document[i].id # <<>>

FormSpec == FormInit /\ [][FormNext]_vars

(* ---------------------- cdpbrowser: start and end ---------------------- *)

MaxLines == 2

\* The pieces of a line of Chrome's stderr. Banner ends with a blank; in the lines
\* below it stands at the start of a line or after Other.
Banner == "DevTools listening on "
Ws == "ws://"
Sp == " "
Other == "x"

Noise == <<Other>>
Announcement == <<Banner, Ws, Other>>
Embedded == <<Other, Banner, Ws, Other, Other, Sp, Other>>
NoAddress == <<Banner, Ws, Sp, Other>>
ChromeLines == {Noise, Announcement, Embedded, NoAddress}

\* [^\s]+ : the longest run without whitespace from position i of the line.
RECURSIVE NonSpaceRun(_, _)
NonSpaceRun(line, i) ==
    IF i > Len(line) \/ line[i] = Sp THEN <<>>
    ELSE <<line[i]>> \o NonSpaceRun(line, i + 1)

\* wsPattern.FindStringSubmatch(line): nothing, or the leftmost match and its group.
FindStringSubmatch(line) ==
    LET starts == {i \in 1..Len(line) : /\ i + 2 <= Len(line)
                                        /\ line[i] = Banner
                                        /\ line[i + 1] = Ws
                                        /\ line[i + 2] # Sp}
    IN  IF starts = {} THEN <<>>
        ELSE LET i == CHOOSE j \in starts : \A k \in starts : j <= k
                 group == <<Ws>> \o NonSpaceRun(line, i + 2)
             IN  <<<<Banner>> \o group, group>>

\* The errors of launchChromeAndGetWebSocketURL.
PipeError == "failed to create stderr pipe"
StartError == "failed to start Chrome"
ReadError == "error reading Chrome output"
NoURLError == "chrome started but no WebSocket URL found"
TimeoutError == "timeout waiting for Chrome WebSocket URL"

\* What the listener sends when scanner.Scan() returns false.
ScannerError(end) == IF end = "readerr" THEN ReadError ELSE NoURLError

\* Mutant: the select without its time.After case.
ReadyCasesWithoutTimer(ws, er, timer) ==
    {c \in {"wsURL", "err"} :
        \/ c = "wsURL" /\ ws # <<>>
        \/ c = "err" /\ er # <<>>}

\* The cases of the select that can proceed.
ReadyCases(ws, er, timer) ==
    {c \in {"wsURL", "err", "timeout"} :
        \/ c = "wsURL" /\ ws # <<>>
        \/ c = "err" /\ er # <<>>
        \/ c = "timeout" /\ timer}

\* NewCDPBrowserServer: keepOpen.
NewCDPBrowserServer(envVal) == ~(envVal = "true" \/ envVal = "1")

CloseOnExitValues == {"", "true", "1", "false"}

\* cleanup: the Chrome process after it.
cleanup(cmd, process) == IF cmd THEN "killed" ELSE process

\* main has constructed the server.
ServerInit ==
    /\ ClientIdle
    /\ AdapterIdle
    /\ ResolverIdle
    /\ FormIdle
    /\ ConnIdle
    /\ NormIdle
    /\ closeOnExit \in CloseOnExitValues
    /\ keepChromeOpen = NewCDPBrowserServer(closeOnExit)
    /\ lastKeepOpen = <<>>
    /\ spc = "launch"
    /\ stderrLines \in SeqsUpTo(ChromeLines, MaxLines)
    /\ stderrEnd \in {"eof", "readerr", "open"}
    /\ scanned = 0
    /\ listener = "none"
    /\ wsURLChan = <<>>
    /\ errChan = <<>>
    /\ sentIn = ""
    /\ timedOut = FALSE
    /\ launchErr = "pending"
    /\ wsURL = <<>>
    /\ chromeCmd = FALSE
    /\ chrome = "none"
    /\ shutdownPending = FALSE
    /\ exitHow = ""

serverFrame ==
    UNCHANGED <<clientVars, adapterVars, resolverVars, formVars, connVars, normVars,
                closeOnExit, stderrLines, stderrEnd>>

\* launchChromeAndGetWebSocketURL up to its select. When it returns an error,
\* Initialize returns it and main ends with log.Fatalf.
LaunchChrome ==
    /\ spc = "launch"
    /\ \E pipeOK, startOK \in BOOLEAN :
        IF ~pipeOK \/ ~startOK
        THEN /\ launchErr' = (IF ~pipeOK THEN PipeError ELSE StartError)
             /\ spc' = "exited"
             /\ exitHow' = "fatal"
             /\ UNCHANGED <<chromeCmd, chrome, listener>>
        ELSE /\ chromeCmd' = TRUE
             /\ chrome' = "running"
             /\ listener' = "scanning"
             /\ spc' = "waiting"
             /\ UNCHANGED <<launchErr, exitHow>>
    /\ UNCHANGED <<keepChromeOpen, lastKeepOpen, scanned, wsURLChan, errChan, sentIn, timedOut,
                   wsURL, shutdownPending>>
    /\ serverFrame

\* make(chan string, 1), make(chan error, 1): the capacity of the two channels.
ChanCap == 1

\* Mutant: a send on an unbuffered channel proceeds when the receiver waits.
SendProceedsUnbuffered(ch, receiving) == receiving /\ ch = <<>>

\* A send on a buffered channel proceeds when the buffer has room, whether the
\* receiver waits or not.
SendProceeds(ch, receiving) == Len(ch) < ChanCap

\* One turn of the listener: scanner.Scan() and what follows it. The listener runs
\* as long as the process does, also after the select has returned.
ListenerScans ==
    /\ spc # "exited"
    /\ listener = "scanning"
    /\ IF scanned < Len(stderrLines)
       THEN LET matches == FindStringSubmatch(stderrLines[scanned + 1]) IN
            /\ scanned' = scanned + 1
            /\ IF Len(matches) > 1
               THEN IF SendProceeds(wsURLChan, spc = "waiting")
                    THEN /\ wsURLChan' = Append(wsURLChan, matches[2])
                         /\ sentIn' = spc
                         /\ listener' = "done"
                    ELSE /\ listener' = "blocked"
                         /\ UNCHANGED <<wsURLChan, sentIn>>
               ELSE UNCHANGED <<wsURLChan, sentIn, listener>>
            /\ UNCHANGED errChan
       ELSE /\ stderrEnd # "open"
            /\ IF SendProceeds(errChan, spc = "waiting")
               THEN /\ errChan' = Append(errChan, ScannerError(stderrEnd))
                    /\ sentIn' = spc
                    /\ listener' = "done"
               ELSE /\ listener' = "blocked"
                    /\ UNCHANGED <<errChan, sentIn>>
            /\ UNCHANGED <<scanned, wsURLChan>>
    /\ UNCHANGED <<keepChromeOpen, lastKeepOpen, spc, timedOut, launchErr, wsURL, chromeCmd,
                   chrome, shutdownPending, exitHow>>
    /\ serverFrame

\* The timer of time.After(10 * time.Second) fires.
TimerFires ==
    /\ spc = "waiting"
    /\ ~timedOut
    /\ timedOut' = TRUE
    /\ UNCHANGED <<keepChromeOpen, lastKeepOpen, spc, scanned, listener, wsURLChan, errChan, sentIn,
                   launchErr, wsURL, chromeCmd, chrome, shutdownPending, exitHow>>
    /\ serverFrame

\* The select proceeds with one of its ready cases and the function returns; an
\* error goes up to main.
SelectReturns ==
    /\ spc = "waiting"
    /\ \E case \in ReadyCases(wsURLChan, errChan, timedOut) :
        \/ /\ case = "wsURL"
           /\ wsURL' = Head(wsURLChan)
           /\ wsURLChan' = Tail(wsURLChan)
           /\ launchErr' = "nil"
           /\ spc' = "connect"
           /\ UNCHANGED <<errChan, chrome, exitHow>>
        \/ /\ case = "err"
           /\ chrome' = "killed"
           /\ launchErr' = Head(errChan)
           /\ errChan' = Tail(errChan)
           /\ spc' = "failed"
           /\ UNCHANGED <<wsURLChan, wsURL, exitHow>>
        \/ /\ case = "timeout"
           /\ chrome' = "killed"
           /\ launchErr' = TimeoutError
           /\ spc' = "failed"
           /\ UNCHANGED <<wsURLChan, errChan, wsURL, exitHow>>
    /\ UNCHANGED <<keepChromeOpen, lastKeepOpen, scanned, listener, sentIn, timedOut, chromeCmd,
                   shutdownPending>>
    /\ serverFrame

\* Initialize has returned the error of the wait, and main ends with log.Fatalf.
InitializeFails ==
    /\ spc = "failed"
    /\ spc' = "exited"
    /\ exitHow' = "fatal"
    /\ UNCHANGED <<keepChromeOpen, lastKeepOpen, launchVars, chromeCmd, chrome,
                   shutdownPending>>
    /\ serverFrame

\* connectToChromeWebSocket, and the rest of main up to mcpServer.Run.
ConnectToChrome ==
    /\ spc = "connect"
    /\ \E titleOK \in BOOLEAN :
        IF wsURL # <<>> /\ titleOK
        THEN /\ spc' = "serving"
             /\ UNCHANGED <<chrome, exitHow>>
        ELSE /\ chrome' = (IF wsURL = <<>> THEN chrome ELSE cleanup(chromeCmd, chrome))
             /\ spc' = "exited"
             /\ exitHow' = "fatal"
    /\ UNCHANGED <<keepChromeOpen, lastKeepOpen, launchVars, chromeCmd, shutdownPending>>
    /\ serverFrame

\* The handler of set_chrome_lifecycle.
SetChromeLifecycle ==
    /\ spc = "serving"
    /\ \E keepOpen \in BOOLEAN :
        /\ keepChromeOpen' = keepOpen
        /\ lastKeepOpen' = <<keepOpen>>
    /\ UNCHANGED <<spc, launchVars, chromeCmd, chrome, shutdownPending, exitHow>>
    /\ serverFrame

\* The handler of close_browser.
CloseBrowser ==
    /\ spc = "serving"
    /\ IF chromeCmd
       THEN /\ chrome' = "killed"
            /\ chromeCmd' = FALSE
       ELSE UNCHANGED <<chrome, chromeCmd>>
    /\ UNCHANGED <<keepChromeOpen, lastKeepOpen, spc, launchVars, shutdownPending, exitHow>>
    /\ serverFrame

\* The handler of shutdown_server: it starts the goroutine that will call os.Exit.
ShutdownServer ==
    /\ spc = "serving"
    /\ shutdownPending' = TRUE
    /\ UNCHANGED <<keepChromeOpen, lastKeepOpen, spc, launchVars, chromeCmd, chrome, exitHow>>
    /\ serverFrame

\* os.Exit(0) in that goroutine: the process ends, deferred calls do not run.
ExitProcess ==
    /\ spc = "serving"
    /\ shutdownPending
    /\ spc' = "exited"
    /\ exitHow' = "os.Exit"
    /\ UNCHANGED <<keepChromeOpen, lastKeepOpen, launchVars, chromeCmd, chrome,
                   shutdownPending>>
    /\ serverFrame

\* mcpServer.Run returns; main returns and its deferred cleanup runs.
RunReturns ==
    /\ spc = "serving"
    /\ chrome' = cleanup(chromeCmd, chrome)
    /\ spc' = "exited"
    /\ exitHow' = "return"
    /\ UNCHANGED <<keepChromeOpen, lastKeepOpen, launchVars, chromeCmd, shutdownPending>>
    /\ serverFrame

ServerNext ==
    \/ LaunchChrome
    \/ ListenerScans
    \/ TimerFires
    \/ SelectReturns
    \/ InitializeFails
    \/ ConnectToChrome
    \/ SetChromeLifecycle
    \/ CloseBrowser
    \/ ShutdownServer
    \/ ExitProcess
    \/ RunReturns

ServerSpec == ServerInit /\ [][ServerNext]_vars

\* The main flow runs when it can, and the timer of time.After fires.
FairServerSpec ==
    /\ ServerSpec
    /\ WF_vars(LaunchChrome)
    /\ WF_vars(TimerFires)
    /\ WF_vars(SelectReturns)
    /\ WF_vars(InitializeFails)

(* ------------------------ conversation history ------------------------ *)

IsTool(m) == m.role = "tool"
IsAssistant(m) == m.role = "assistant"

CallIDs(m) == {m.toolCalls[k].id : k \in 1..Len(m.toolCalls)}

\* Call IDs of the tool-role messages, in conversation order.
AnsweredIDs ==
    LET tools == SelectSeq(messages, IsTool) IN
    [i \in 1..Len(tools) |-> tools[i].toolCallID]

\* Call IDs of the assistant messages' tool calls, in emission order.
RECURSIVE EmittedFrom(_)
EmittedFrom(i) ==
    IF i > Len(messages) THEN <<>>
    ELSE [k \in 1..Len(messages[i].toolCalls) |-> messages[i].toolCalls[k].id]
         \o EmittedFrom(i + 1)

EmittedIDs == EmittedFrom(1)

ExecutedIDs == [i \in 1..Len(execLog) |-> execLog[i].id]

Range(seq) == {seq[i] : i \in 1..Len(seq)}

NoDuplicates(seq) == Cardinality(Range(seq)) = Len(seq)

IsPrefix(p, q) == Len(p) <= Len(q) /\ p = SubSeq(q, 1, Len(p))

AssistantTurns == Len(SelectSeq(messages, IsAssistant))

\* From message i on, every tool-role message carries the ID of a tool call
\* of opener, the nearest message before it that is not a tool-role message.
RECURSIVE AnswersFrom(_, _)
AnswersFrom(i, opener) ==
    IF i > Len(messages) THEN TRUE
    ELSE LET m == messages[i] IN
         IF IsTool(m)
         THEN /\ IsAssistant(opener)
              /\ m.toolCallID \in CallIDs(opener)
              /\ AnswersFrom(i + 1, opener)
         ELSE AnswersFrom(i + 1, m)

\* C1: every tool-role message answers a tool call of the nearest preceding
\* assistant message, and only tool-role messages lie between the two.
C1_ToolMessagesAnswerPrecedingTurn == AnswersFrom(1, NoMessage)

\* C1 witness: the conversation holds tool-role messages of two turns, the
\* later turn with two calls answered.
C1_Witness ==
    /\ AssistantTurns >= 2
    /\ Len(messages) >= 7
    /\ IsTool(messages[Len(messages)])
    /\ IsTool(messages[Len(messages) - 1])

\* C2: no call is executed or answered twice, none is answered that was not
\* executed, and whenever the driver is not inside the tool loop (a model
\* request is being made, or the session has ended) every call the model
\* emitted was executed exactly once and answered exactly once.
C2_EachCallOnce ==
    LET executed == ExecutedIDs
        answered == AnsweredIDs
        emitted == Range(EmittedIDs)
    IN
    /\ NoDuplicates(executed)
    /\ NoDuplicates(answered)
    /\ Range(answered) \subseteq Range(executed)
    /\ Range(executed) \subseteq emitted
    /\ pc \notin {"exec", "pause", "answer"} =>
           /\ Range(executed) = emitted
           /\ Range(answered) = emitted

\* C2 witness: a model request is about to be made after a turn in which
\* one call failed and another succeeded, both answered.
C2_Witness ==
    /\ pc = "call"
    /\ \E i, j \in 1..Len(execLog) : execLog[i].err /\ ~execLog[j].err
    /\ Len(AnsweredIDs) = Len(execLog)

\* C3: calls are executed one at a time in emission order, and the tool-role
\* messages follow in the same order: the executed calls are a prefix of the
\* emitted ones, the answered calls a prefix of the executed ones, and at
\* most one executed call is still unanswered.
C3_SequentialInEmissionOrder ==
    LET executed == ExecutedIDs
        answered == AnsweredIDs
    IN
    /\ IsPrefix(executed, EmittedIDs)
    /\ IsPrefix(answered, executed)
    /\ Len(executed) - Len(answered) \in {0, 1}
    /\ pc = "exec" => answered = executed

\* C3 witness: the second call of a turn is about to start, the first one
\* executed and answered.
C3_Witness ==
    /\ pc = "exec"
    /\ callIdx = 2
    /\ Len(AnsweredIDs) >= 1
    /\ AnsweredIDs[Len(AnsweredIDs)] = resp.toolCalls[1].id

(* ------------------------- termination, ceiling ----------------------- *)

Terminated == pc \in {"done", "failed", "panic"}

\* The iteration ceiling the claims state for each client.
StatedCeiling == IF program = "autobrowser" THEN 5 ELSE 50

LastMessage == messages[Len(messages)]

\* The model's latest turn carried no tool call.
ModelStopped == IsAssistant(LastMessage) /\ LastMessage.toolCalls = <<>>

C5_CeilingIsReported ==
    (pc = "done" /\ IsTool(LastMessage)) =>
        /\ AssistantTurns = StatedCeiling
        /\ finalResponse[Len(finalResponse)] = Notice

\* C5 witness: voicebrowser returned with the model still calling tools.
C5_Witness ==
    /\ pc = "done"
    /\ program = "voicebrowser"
    /\ IsTool(LastMessage)
    /\ resp.toolCalls # <<>>

(* ------------------------------ rate limits --------------------------- *)

\* An error of the rate-limit class, as the model service reports it.
IsRateLimitError(e) ==
    e \in { [api |-> TRUE, type |-> "rate_limit_exceeded", code |-> "429"],
            [api |-> TRUE, type |-> "requests", code |-> "rate_limit_exceeded"] }

\* C6: before attempt k+1 of an iteration the retry loop has slept
\* backoff x 1, ..., backoff x k, one sleep after each rate-limit failure, and
\* a rate-limit failure below the retry ceiling does not end the session.
C6_LinearBackoff ==
    /\ slept = [k \in 1..retryCount |-> backoffDuration * k]
    /\ pc = "call" => attempts = retryCount
    /\ (pc = "failed" /\ IsRateLimitError(err)) => retryCount = maxRetries

\* C6 witness: attempts 1 and 2 were rate-limited, attempt 3 succeeded, and
\* the iteration goes on to execute the tool calls of the response.
C6_Witness ==
    /\ pc = "exec"
    /\ attempts = 3
    /\ slept = <<backoffDuration, 2 * backoffDuration>>
    /\ IsAssistant(LastMessage)

\* C7: an iteration makes at most 5 model-service attempts; after the fifth
\* rate-limit failure the session has failed with that error, and the
\* iteration never goes on without a response.
C7_RetriesBounded ==
    /\ attempts <= 5
    /\ retryCount <= 5
    /\ retryCount = 5 => (pc = "failed" /\ IsRateLimitError(err) /\ attempts = 5)
    /\ pc \in {"exec", "pause", "answer", "enditer"} => IsAssistant(resp)

\* C7 witness: all five attempts of an iteration were rate-limited.
C7_Witness ==
    /\ pc = "failed"
    /\ attempts = 5
    /\ IsRateLimitError(err)
    /\ Len(slept) = 5

(* --------------------------- failure handling ------------------------- *)

\* C8: a model-service error outside the rate-limit class ends the session
\* on the spot with that error, and nothing follows: no message is appended,
\* no tool executed and no model request made after the session has failed.
C8_FatalErrorAborts ==
    /\ []((err # NoError /\ ~IsRateLimitError(err)) => pc = "failed")
    /\ [][pc = "failed" =>
            /\ messages' = messages
            /\ execLog' = execLog
            /\ attempts' = attempts
            /\ pc' = "failed"]_vars

\* C8 witness: after a completed turn and one rate-limited attempt, the
\* model service fails with a server error and the session has failed.
C8_Witness ==
    /\ pc = "failed"
    /\ err.type = "server_error"
    /\ retryCount = 1
    /\ AssistantTurns >= 1

ToolMessages == SelectSeq(messages, IsTool)

InToolLoop == pc \in {"exec", "pause", "answer"}

EndsWith(text, tail) ==
    /\ Len(tail) <= Len(text)
    /\ SubSeq(text, Len(text) - Len(tail) + 1, Len(text)) = tail

\* C9: the k-th tool-role message answers the k-th executed call, and for a
\* call that failed it carries the error's text behind an error prefix; at
\* the end of a turn every call of the turn was executed and answered; and
\* from inside the tool loop the driver only moves on within the turn or to
\* the next iteration, never to the end of the session.
C9_ToolFailureIsLocal ==
    /\ [](LET answers == ToolMessages IN
          /\ Len(answers) <= Len(execLog)
          /\ \A k \in 1..Len(answers) :
                 /\ answers[k].toolCallID = execLog[k].id
                 /\ execLog[k].err =>
                        /\ EndsWith(answers[k].content, execLog[k].text)
                        /\ Len(answers[k].content) > Len(execLog[k].text)
          /\ pc = "enditer" =>
                 /\ CallIDs(resp) \subseteq Range(ExecutedIDs)
                 /\ CallIDs(resp) \subseteq Range(AnsweredIDs))
    /\ [][InToolLoop => InToolLoop' \/ pc' = "enditer"]_vars
    /\ [][pc = "enditer" => pc' = "loop"]_vars

\* C9 witness: the first call of a turn failed, the second call of the turn
\* was executed all the same, and the next model request is being made.
C9_Witness ==
    /\ pc = "call"
    /\ Len(plan) = 2
    /\ Len(execLog) >= 2
    /\ execLog[1].err
    /\ ~execLog[2].err
    /\ Len(ToolMessages) = Len(execLog)

\* C10: the backend is only ever called with a tool name of the catalog, and
\* a call whose arguments parse and whose name is not in the catalog fails
\* with the tool-not-found error.
C10_LookupBeforeCall ==
    /\ Range(backendCalls) \subseteq Catalog
    /\ \A k \in 1..Len(execLog) :
           (execLog[k].name \notin Catalog /\ ~Unmarshal(execLog[k].args).fail) =>
               /\ execLog[k].err
               /\ execLog[k].text = <<"tool not found: ", execLog[k].name>>

(* ------------------------------ the ledger ---------------------------- *)

Succeeded(e) == ~e.err

\* The invocation an execution that returned success stands for.
InvocationOf(e) == Invocation(e.name, Unmarshal(e.args), e.text, e.at)

\* The invocations of the executions that returned success, in execution order.
SuccessfulInvocations ==
    LET ok == SelectSeq(execLog, Succeeded) IN
    [i \in 1..Len(ok) |-> InvocationOf(ok[i])]

LastExec == execLog[Len(execLog)]

\* A step in which a tool execution returned.
Executes == Len(execLog') = Len(execLog) + 1

\* The invocations the per-invocation records hold, in the order of the records.
RecordedInvocations == [i \in 1..Len(commandFiles) |-> commandFiles[i].data]

\* C11: in autobrowser, which keeps the ledger, the ledger holds exactly one
\* Invocation (tool name, parsed arguments, result, timestamp) for each tool
\* execution that returned success and none for one that failed; a
\* successful execution adds its Invocation at the end, and a failed one
\* (arguments that do not parse, tool not found, backend call error) leaves
\* the ledger and the per-invocation records as they were.
C11_LedgerGainsOnePerSuccess ==
    /\ [](program = "autobrowser" => learningData = SuccessfulInvocations)
    /\ [][(program = "autobrowser" /\ Executes) =>
            IF LastExec'.err
            THEN learningData' = learningData /\ commandFiles' = commandFiles
            ELSE learningData' = Append(learningData, InvocationOf(LastExec'))]_vars

\* C11 witness: autobrowser has executed a call whose arguments did not
\* parse and a call that succeeded, and the ledger is shorter than the
\* list of executions.
C11_Witness ==
    /\ program = "autobrowser"
    /\ pc = "call"
    /\ \E i, j \in 1..Len(execLog) :
           /\ execLog[i].err /\ execLog[i].text = <<"failed to parse tool arguments">>
           /\ ~execLog[j].err
    /\ Len(learningData) >= 1
    /\ Len(learningData) < Len(execLog)

\* C12: the ledger is append-only and in execution order: every step keeps
\* the entries recorded so far as a prefix of the ledger, the timestamps do
\* not decrease along the ledger, and the last entry is the most recent
\* successful execution.
C12_LedgerAppendOnly ==
    /\ [][IsPrefix(learningData, learningData')]_vars
    /\ [](\A i \in 1..(Len(learningData) - 1) :
             learningData[i].timestamp <= learningData[i + 1].timestamp)
    /\ []((program = "autobrowser" /\ execLog # <<>> /\ ~LastExec.err) =>
             learningData[Len(learningData)] = InvocationOf(LastExec))

\* C12 witness: the ledger holds entries of two turns, the second turn with
\* two entries.
C12_Witness ==
    /\ Len(learningData) >= 3
    /\ learningData[1].timestamp < learningData[Len(learningData)].timestamp
    /\ learningData[Len(learningData) - 1].timestamp = learningData[Len(learningData)].timestamp

Host(url) ==
    LET slashes == {i \in 1..Len(url) : url[i] = "/"} IN
    IF slashes = {} THEN url
    ELSE SubSeq(url, 1, (CHOOSE i \in slashes : \A j \in slashes : i <= j) - 1)

\* The URL designates the target origin: its host is the target site or a
\* subdomain of it, in any case of the letters.
DesignatesTarget(url) ==
    LET host == ToLower(Host(url)) IN
    host = TargetSite \/ EndsWith(host, <<".">> \o TargetSite)

\* The call is a navigate call to the target origin.
NavigatesToTarget(toolCall) ==
    /\ toolCall.name = "navigate"
    /\ LET args == Unmarshal(toolCall.args) IN
        ~args.fail /\ "url" \in args.keys /\ DesignatesTarget(args.url)

\* The pause happens at most once in a session: it is entered only before
\* the prompt was ever answered, answering it sets the flag, and with the
\* flag set the flag stays and no call pauses the loop.
PauseAtMostOnce ==
    /\ [](pc = "pause" => ~initialLoginPromptShown)
    /\ [][pc = "pause" => initialLoginPromptShown']_vars
    /\ [][initialLoginPromptShown => initialLoginPromptShown' /\ pc' # "pause"]_vars

\* C14: the pause for manual intervention happens at most once in a
\* session, and the loop pauses only after a navigate call whose URL
\* designates the target origin.
C14_PauseOnceForTargetOnly ==
    /\ PauseAtMostOnce
    /\ [](pc = "pause" => NavigatesToTarget(CurrentCall))

(* ------------------------------- replay ------------------------------- *)

\* The positions in replayRuns of the executions of command i.
RunsOf(i) == {k \in 1..Len(replayRuns) : replayRuns[k].entry = i}

Earliest(S) == CHOOSE k \in S : \A l \in S : k <= l
Latest(S) == CHOOSE k \in S : \A l \in S : l <= k

\* The first execution of command i.
FirstRun(i) == replayRuns[Earliest(RunsOf(i))]

\* Command i was executed, and its first execution did not fail outright.
Reexecuted(i) == RunsOf(i) # {} /\ ~FirstRun(i).err

\* The positions in analysisLog of the requests made for command i.
AnalysesOf(i) == {k \in 1..Len(analysisLog) : analysisLog[k].entry = i}

\* The replay is inside the loop, at a command not yet in the new ledger.
InReplayLoop == rpc \in {"entry", "analyse", "retry", "compare"}

\* C15: with no ledger file, the replay returns false and no error, and it
\* has executed no tool, made no request to the model service, written no
\* file and left the active ledger as it was.
C15_NoFileNoReplay ==
    (learningFile = NoFile /\ rpc = "returned") =>
        /\ didReplay = NotExecuted
        /\ replayRuns = <<>>
        /\ backendCalls = <<>>
        /\ analysisLog = <<>>
        /\ updatedFile = NoFile
        /\ commandFiles = <<>>
        /\ learningData = <<>>
        /\ updatedLearning = <<>>

\* C15 witness: the replay has returned and there was no ledger file.
C15_Witness ==
    /\ rpc = "returned"
    /\ learningFile = NoFile
    /\ ~didReplay.flag

\* C16: a command whose re-execution failed outright stands unchanged at
\* its position of the new ledger, was executed once, caused no request to
\* the model service, and the replay went on: inside the loop the command
\* at hand is the one after the new ledger's last, and after the loop the
\* new ledger has an entry for every recorded command.
C16_FailedEntryKept ==
    /\ \A i \in 1..Len(summary) :
           (RunsOf(i) # {} /\ FirstRun(i).err) =>
               /\ Len(updatedLearning) >= i
               /\ updatedLearning[i] = summary[i]
               /\ Cardinality(RunsOf(i)) = 1
               /\ AnalysesOf(i) = {}
    /\ InReplayLoop => (cmdIdx = Len(updatedLearning) + 1 /\ cmdIdx <= Len(summary))
    /\ (rpc = "save" \/ didReplay.flag) => Len(updatedLearning) = Len(summary)

\* C16 witness: the replay has returned; the first command, recorded with
\* a result, failed outright and the second one was executed with success.
C16_Witness ==
    /\ rpc = "returned"
    /\ Len(summary) >= 2
    /\ summary[1].result # <<>>
    /\ FirstRun(1).err
    /\ Reexecuted(2)

\* A result text that carries the backend's error flag.
ErrorFlagged(text) == \E n \in Catalog : text = MarshalIndent(BackendResultOf(n, "toolerr"))

\* C17: a request to the model service is made only for a command whose
\* re-execution succeeded with a result that carries the error flag; a
\* command whose new result has no error flag and differs from the
\* recorded one is executed once, causes no request, and gets the new
\* result.
C17_RepairOnlyOnErrorFlag ==
    /\ \A k \in 1..Len(analysisLog) :
           /\ Reexecuted(analysisLog[k].entry)
           /\ ErrorFlagged(FirstRun(analysisLog[k].entry).text)
    /\ \A i \in 1..Len(updatedLearning) :
           (/\ Reexecuted(i)
            /\ ~ErrorFlagged(FirstRun(i).text)
            /\ FirstRun(i).text # summary[i].result) =>
               /\ AnalysesOf(i) = {}
               /\ Cardinality(RunsOf(i)) = 1
               /\ updatedLearning[i].result = FirstRun(i).text

\* C17 witness: the replay has returned; the result of one command had
\* changed without an error flag, and a request was made for another.
C17_Witness ==
    /\ rpc = "returned"
    /\ analysisLog # <<>>
    /\ \E i \in 1..Len(updatedLearning) :
           /\ Reexecuted(i)
           /\ ~ErrorFlagged(FirstRun(i).text)
           /\ updatedLearning[i].result # summary[i].result

\* C18: the "before" snapshot of a repair request is the result, in the
\* new ledger, of the latest earlier command whose re-execution succeeded,
\* and the "after" snapshot is the recorded result of the command at hand.
C18_BeforeIsLastReplayed ==
    \A k \in 1..Len(analysisLog) :
        LET i == analysisLog[k].entry
            replayed == {j \in 1..(i - 1) : Reexecuted(j)}
        IN
        /\ replayed # {}
        /\ analysisLog[k].request.before = updatedLearning[Latest(replayed)].result
        /\ analysisLog[k].request.after = summary[i].result

\* The answer to a repair request yields no arguments.
NoSuggestion(answer) ==
    answer.err \/ answer.choices = <<>> \/ Unmarshal(answer.choices[1]).fail

\* C19: a command is executed at most twice and causes at most one request
\* to the model service, the second execution only after a request; and
\* when the request failed, its answer yielded no arguments or the second
\* execution failed, the command's new result is the error result of the
\* first execution.
C19_RepairRetriesOnce ==
    /\ \A i \in 1..Len(summary) :
           /\ Cardinality(RunsOf(i)) <= 2
           /\ Cardinality(AnalysesOf(i)) <= 1
           /\ Cardinality(RunsOf(i)) = 2 => AnalysesOf(i) # {}
    /\ \A k \in 1..Len(analysisLog) :
           LET i == analysisLog[k].entry IN
           (/\ Len(updatedLearning) >= i
            /\ \/ NoSuggestion(analysisLog[k].answer)
               \/ replayRuns[Latest(RunsOf(i))].err) =>
               updatedLearning[i].result = FirstRun(i).text

\* C19 witness: the replay has returned; one command was executed twice,
\* the second time with an outright failure, and has the error result of
\* its first execution.
C19_Witness ==
    /\ rpc = "returned"
    /\ \E i \in 1..Len(summary) :
           /\ Cardinality(RunsOf(i)) = 2
           /\ replayRuns[Latest(RunsOf(i))].err
           /\ ErrorFlagged(updatedLearning[i].result)

\* The new result of command i: what its latest execution that did not
\* fail returned.
FreshResult(i) ==
    replayRuns[Latest({k \in RunsOf(i) : ~replayRuns[k].err})].text

\* C20: a command whose re-execution succeeded has, in the new ledger, the
\* recorded result when the hashes of the recorded and the new result are
\* equal, and the new result when they differ.
C20_HashDecidesResult ==
    \A i \in 1..Len(updatedLearning) :
        Reexecuted(i) =>
            updatedLearning[i].result =
                IF calculateHash(summary[i].result) = calculateHash(FreshResult(i))
                THEN summary[i].result
                ELSE FreshResult(i)

\* C20 witness: the replay has returned with one command confirmed and one
\* command updated.
C20_Witness ==
    /\ rpc = "returned"
    /\ \E i, j \in 1..Len(updatedLearning) :
           /\ Reexecuted(i) /\ FreshResult(i) = summary[i].result
           /\ Reexecuted(j) /\ FreshResult(j) # summary[j].result
           /\ updatedLearning[j].result = FreshResult(j)

(* ------------------------- replay, and again -------------------------- *)

\* Command i was executed once, without an error and without the error
\* flag, and returned exactly its recorded result.
StableRun(i) ==
    /\ Cardinality(RunsOf(i)) = 1
    /\ ~FirstRun(i).err
    /\ ~ErrorFlagged(FirstRun(i).text)
    /\ FirstRun(i).text = summary[i].result

\* A pass has ended in which the backend was stable for every command.
StablePass ==
    /\ rpc = "returned"
    /\ didReplay.flag
    /\ \A i \in 1..Len(summary) : StableRun(i)

\* Two ledgers with the same tool names, arguments and results, entry by entry.
SameContent(a, b) ==
    /\ Len(a) = Len(b)
    /\ \A i \in 1..Len(a) :
        /\ a[i].toolName = b[i].toolName
        /\ a[i].arguments = b[i].arguments
        /\ a[i].result = b[i].result

LedgerFile(c) == [kind |-> "commands", commands |-> c]

\* executeStoredCommands is at work: it was called and has not returned.
InReplayPass == rpc # "returned"

\* executeStoredCommands has returned true.
ReplayCompleted == rpc = "returned" /\ didReplay.flag

C23_NewLedgerBecomesActive ==
    /\ [](InReplayPass => learningData = <<>>)
    /\ [](ReplayCompleted => learningData = updatedLearning \o SuccessfulInvocations)
    /\ [][rpc # "start" => summary' = summary]_vars

\* C23 witness: the pass produced a new ledger that differs from the
\* loaded one, and the conversation that followed has recorded an invocation.
C23_Witness ==
    /\ ReplayCompleted
    /\ updatedLearning # summary
    /\ summary = learningFile.commands
    /\ Len(SuccessfulInvocations) = 1
    /\ Len(learningData) = Len(updatedLearning) + 1

(* --------------------------- the tool catalog ------------------------- *)

\* The tools of the catalog whose schema reaches the model service: the
\* schema is there and has a JSON object.
Submittable(t) == t.InputSchema.kind = "schema"

\* The parameters of the submitted tool agree with the schema of the
\* listed tool in every field the schema has.
KeepsFields(submitted, t) ==
    LET params == submitted.Function.Parameters
        schema == t.InputSchema
    IN
    /\ schema.Type # "" => params["type"] = schema.Type
    /\ schema.Properties # {} => params["properties"] = schema.Properties
    /\ schema.Required # <<>> =>
            ("required" \in DOMAIN params /\ params["required"] = schema.Required)
    /\ schema.Required = <<>> => "required" \notin DOMAIN params

\* C24: the submitted tools are the listed tools that have a schema, in
\* the order of the catalog; each has parameters with a type and a
\* properties field, "object" and the empty mapping where the schema has
\* none, and every field of the schema as it was; a tool without a schema
\* is not among them.
C24_SubmittedSchemasComplete ==
    apc = "converted" =>
        LET listed == SelectSeq(mcpTools, Submittable) IN
        /\ Len(openaiTools) = Len(listed)
        /\ \A i \in 1..Len(openaiTools) :
            LET params == openaiTools[i].Function.Parameters IN
            /\ openaiTools[i].Function.Name = listed[i].Name
            /\ {"type", "properties"} \subseteq DOMAIN params
            /\ listed[i].InputSchema.Type = "" => params["type"] = "object"
            /\ listed[i].InputSchema.Properties = {} => params["properties"] = {}
            /\ KeepsFields(openaiTools[i], listed[i])

\* C24 witness: a catalog of a tool without a schema and a tool whose
\* schema has required fields only was converted to one tool.
C24_Witness ==
    /\ apc = "converted"
    /\ Len(mcpTools) = 2
    /\ mcpTools[1].InputSchema.kind = "nil"
    /\ mcpTools[2].InputSchema.kind = "schema"
    /\ mcpTools[2].InputSchema.Type = ""
    /\ mcpTools[2].InputSchema.Properties = {}
    /\ mcpTools[2].InputSchema.Required # <<>>
    /\ Len(openaiTools) = 1

(* ------------------------- element targeting -------------------------- *)

\* The input has none of the characters that rule out an identifier.
IdentifierShaped(s) == \A i \in 1..Len(s) : s[i] \notin {"#", ".", "[", " "}

\* Element e is what strategy n looks for, given the input s.
Targets(n, e, s) ==
    CASE n = 1 -> e.ariaLabel = s
      [] n = 2 -> ValidCSS(s) /\ SatisfiesCSS(e, s)
      [] n = 3 -> e.id = s
      [] n = 4 -> e.ariaLabel # <<>> /\ Contains(e.ariaLabel, s)
      [] n = 5 -> e.name = s
      [] n = 6 -> e.placeholder = s
      [] n = 7 -> (e.tag \in {Button, Anchor} /\ e.text = s) \/ (e.tag = Input /\ e.value = s)
      [] n = 8 -> \/ (e.tag \in {Button, Anchor} /\ e.text # <<>> /\ Contains(e.text, s))
                  \/ (e.tag = Input /\ e.value # <<>> /\ Contains(e.value, s))

\* Strategy n has an element on the page.
StrategyMatches(n, s) == \E i \in page : Targets(n, Document[i], s)

\* Strategy 3 is for inputs of the shape of an identifier only.
Applicable(n, s) == n = 3 => IdentifierShaped(s)

\* The locator of strategy n.
StrategyLocator(n, s) ==
    CASE n = 1 -> AriaSelector(s)
      [] n = 2 -> s
      [] n = 3 -> IdSelector(s)
      [] n = 4 -> PartialAriaSelector(s)
      [] n = 5 -> NameSelector(s)
      [] n = 6 -> PlaceholderSelector(s)
      [] n = 7 -> TextXPath(s)
      [] n = 8 -> PartialTextXPath(s)

\* The numbers of the strategies that were tried.
TriedStrategies == {resolution.tried[k].strategy : k \in 1..Len(resolution.tried)}

Called == clickTool # "none"

C26_IdStrategyGuard ==
    Called =>
        (3 \in TriedStrategies <=>
            /\ ~StrategyMatches(1, clickArg)
            /\ ~StrategyMatches(2, clickArg)
            /\ IdentifierShaped(clickArg))

\* C27: an error is returned exactly when no strategy has an element on
\* the page, and then every strategy but the third was tried and found
\* nothing, the third as well unless the input rules it out; a locator
\* returned without an error has an element on the page.
C27_NotFoundWhenNothingMatches ==
    Called =>
        /\ resolution.err <=>
                \A n \in 1..8 : Applicable(n, clickArg) => ~StrategyMatches(n, clickArg)
        /\ resolution.err =>
            /\ (1..8) \ {3} \subseteq TriedStrategies
            /\ IdentifierShaped(clickArg) => 3 \in TriedStrategies
            /\ \A k \in 1..Len(resolution.tried) : ~resolution.tried[k].matched
        /\ ~resolution.err =>
            \E n \in 1..8 :
                /\ resolution.locator = StrategyLocator(n, clickArg)
                /\ StrategyMatches(n, clickArg)

\* C27 witness: "#login-btn" on a page with other elements and none of
\* that identifier: seven strategies were tried and an error returned.
C27_Witness ==
    /\ Called
    /\ clickArg = HashLoginBtn
    /\ page # {}
    /\ resolution.err
    /\ Len(resolution.tried) = 7

\* C28: when findElementWithSmartSelector returned an error, the first
\* click is made with the selector as the caller gave it; the result
\* carries the error flag exactly when every click failed, and no click
\* is made after one that succeeded.
C28_FallbackToLiteral ==
    Called =>
        /\ clickAttempts # <<>>
        /\ resolution.err =>
            (clickAttempts[1].locator = clickArg /\ clickAttempts[1].by = "query")
        /\ ~resolution.err =>
            (clickAttempts[1].locator = resolution.locator
             /\ (Len(clickAttempts) > 1 => clickAttempts[2].locator = clickArg))
        /\ toolResult.isError <=> \A k \in 1..Len(clickAttempts) : ~clickAttempts[k].ok
        /\ \A k \in 1..(Len(clickAttempts) - 1) : ~clickAttempts[k].ok

\* C28 witness: click_button was called, nothing was found, and the
\* clicks with the selector as given and with the text path failed.
C28_Witness ==
    /\ clickTool = "click_button"
    /\ resolution.err
    /\ Len(clickAttempts) = 2
    /\ clickAttempts[1].locator = clickArg
    /\ toolResult.isError

(* ------------------------- waiting for Chrome ------------------------- *)

\* The line has the banner followed by an address.
Announces(line) ==
    \E i \in 1..Len(line) - 2 : line[i] = Banner /\ line[i + 1] = Ws /\ line[i + 2] # Sp

\* url is the address that follows the first banner of the line that has one.
AddressOf(url, line) ==
    \E i \in 1..Len(line) - 2 :
        /\ line[i] = Banner /\ line[i + 1] = Ws /\ line[i + 2] # Sp
        /\ \A j \in 1..(i - 1) : ~(line[j] = Banner /\ line[j + 1] = Ws /\ line[j + 2] # Sp)
        /\ Len(url) >= 2
        /\ i + Len(url) <= Len(line)
        /\ url = SubSeq(line, i + 1, i + Len(url))
        /\ \A k \in 1..Len(url) : url[k] # Sp
        /\ (i + Len(url) = Len(line) \/ line[i + Len(url) + 1] = Sp)

\* The listener read the stream to its end and found no address.
StreamExhausted ==
    /\ scanned = Len(stderrLines)
    /\ \A n \in 1..Len(stderrLines) : ~Announces(stderrLines[n])

WaitOutcome ==
    /\ spc = "waiting" => launchErr = "pending" /\ wsURL = <<>>
    /\ launchErr \in {"pending", "nil", PipeError, StartError, ReadError, NoURLError,
                      TimeoutError}
    /\ spc = "connect" =>
        /\ launchErr = "nil"
        /\ chrome = "running"
        /\ scanned >= 1
        /\ \A n \in 1..(scanned - 1) : ~Announces(stderrLines[n])
        /\ AddressOf(wsURL, stderrLines[scanned])
    /\ launchErr = "nil" => wsURL # <<>>
    /\ launchErr \in {ReadError, NoURLError, TimeoutError} =>
        /\ spc \in {"failed", "exited"}
        /\ chrome = "killed"
        /\ wsURL = <<>>
    /\ launchErr = ReadError => StreamExhausted /\ stderrEnd = "readerr"
    /\ launchErr = NoURLError => StreamExhausted /\ stderrEnd = "eof"
    /\ launchErr = TimeoutError => timedOut

\* C29: the wait for Chrome's address has exactly one outcome: success with the
\* address the listener delivered (the one of the first line announcing one), or the
\* listener's error after the end of the stream or a read error, or the timeout
\* error; with either error Chrome is killed; the outcome is not revised; and every
\* wait ends.
C29_StartupWaitBounded ==
    /\ [](WaitOutcome)
    /\ [][launchErr # "pending" => launchErr' = launchErr /\ wsURL' = wsURL]_vars
    /\ (spc = "waiting") ~> (spc # "waiting")

\* The address came with the second line, after the timer had fired, and the
\* select took the address.
C29_Witness ==
    /\ spc = "connect"
    /\ scanned = 2
    /\ timedOut
    /\ wsURL = <<Ws, Other, Other>>

(* ------------------------- Chrome at the exit ------------------------- *)

\* Closing Chrome at the exit has been asked for.
CloseRequested ==
    \/ closeOnExit \in {"true", "1"}
    \/ lastKeepOpen = <<FALSE>>

\* C30: when the server exits, having served, it leaves Chrome as it is unless
\* CLOSE_CHROME_ON_EXIT is "true" or "1" or the last set_chrome_lifecycle call had
\* keep_open = false.
C30_ChromeLeftRunningByDefault ==
    [][(spc = "serving" /\ spc' = "exited" /\ ~CloseRequested) => chrome' = chrome]_vars

(* --------------------------- the form tools --------------------------- *)

FormTools == {"type_text", "click_button", "click_link", "select_dropdown", "choose_option"}

\* The selector is the accessible label of an element of the page, the first so
\* labelled is visible, and the selector taken as it is finds nothing.
MatchesAsLabelOnly(s) ==
    LET labelled == {i \in page : Document[i].ariaLabel = s} IN
    /\ labelled # {}
    /\ \A i \in labelled : (\A j \in labelled : i <= j) => Document[i].visible
    /\ \A i \in page : Document[i].tag # s

\* C31: each of the five form tools looks for its element with the strategies of
\* findElementWithSmartSelector before it acts, and accepts a selector that is only
\* the accessible label of an element.
C31_FormToolsResolveSmartly ==
    (clickTool \in FormTools /\ MatchesAsLabelOnly(clickArg)) =>
        /\ resolution.tried # <<>>
        /\ ~toolResult.isError

\* C32: choose_option sets the option to unchecked and reports "unchecked" when
\* checked is false, and sets it to checked when checked is true or left out.
C32_ChooseOptionAppliesState ==
    (clickTool = "choose_option" /\ ~toolResult.isError) =>
        LET wanted == formArgs.checked # "false" IN
        /\ Len(pageEffect) = 1
        /\ pageEffect[1].attr = "checked"
        /\ pageEffect[1].value = (IF wanted THEN "true" ELSE "false")
        /\ toolResult.text[2] = (IF wanted THEN "checked" ELSE "unchecked")

(* --------------------------- the MCP session -------------------------- *)

\* C33: the session made at the start is closed exactly once on every way out of
\* the client: when main returns, when the operator declines after the replay, and
\* after an error of sendChatRequest.
C33_SessionClosedOnce ==
    /\ pc # "exited" => (globalMCPSession = "open" /\ closeCalls = 0)
    /\ pc = "exited" => (globalMCPSession = "closed" /\ closeCalls = 1)

(* ------------------------ what an executor returns -------------------- *)

\* The text and the bracketed summary of an item.
Rendered(item) ==
    IF item.type = "text" THEN item.text
    ELSE IF item.type = "image"
    THEN <<"[Image: ", item.mimeType, ", ", ToString(Len(item.data)), " bytes]">>
    ELSE <<"[Unknown content type: ", item.type, "]">>

\* text is made of the pieces of the items from item i on, in content order.
RECURSIVE MadeOf(_, _, _)
MadeOf(text, content, i) ==
    IF i > Len(content) THEN text = <<>>
    ELSE LET piece == Rendered(content[i]) IN
         /\ Len(text) >= Len(piece)
         /\ SubSeq(text, 1, Len(piece)) = piece
         /\ MadeOf(SubSeq(text, Len(piece) + 1, Len(text)), content, i + 1)

Images == {i \in 1..Len(callResult.content) : callResult.content[i].type = "image"}

\* The data of image i is in the text as it is, or in its JSON encoding.
Inlined(text, data) ==
    data # <<>> /\ \E k \in 0..(Len(text) - Len(data)) : SubSeq(text, k + 1, k + Len(data)) = data

\* C34: whichever executor converts it, the result is the texts and the bracketed
\* image summaries of the items, in content order, and holds no image data.
C34_ResultIsConcatenation ==
    executor # "none" => MadeOf(normalized, callResult.content, 1)

\* What each executor returns, as coded: the executor of voicebrowser returns, in
\* content order, the text of each text item, [Image: <mime>, <n> bytes] for each
\* image item and a marker for an item of another type, and no image data; the
\* executor of autobrowser returns the JSON of the whole result, with the data of
\* every image in it and the error flag.
ExecutorsAsCoded ==
    /\ executor = "voicebrowser" =>
        /\ MadeOf(normalized, callResult.content, 1)
        /\ \A i \in Images :
            /\ ~Inlined(normalized, Base64(callResult.content[i].data))
            /\ Len(callResult.content[i].data) > 1 =>
                    ~Inlined(normalized, callResult.content[i].data)
    /\ executor = "autobrowser" =>
        /\ normalized[1] = "{content: "
        /\ SubSeq(normalized, Len(normalized) - 2, Len(normalized))
            = <<", isError: ", IF callResult.isError THEN "true" ELSE "false", "}">>
        /\ \A i \in Images :
            callResult.content[i].data # <<>> =>
                Inlined(normalized, Base64(callResult.content[i].data))

(* ------------------------- the truncation notice ---------------------- *)

NoticeInTranscript == \E i \in 1..Len(finalResponse) : finalResponse[i] = Notice

\* C35: a session whose last model turn had no tool calls returns a transcript
\* without the truncation notice, also when that turn was the last permitted one.
C35_NoticeOnlyWhenCutOff ==
    (pc = "done" /\ ModelStopped) => ~NoticeInTranscript

\* The same, for the sessions whose model stopped before the last permitted turn
\* and for every session of autobrowser.
NoticeOnlyWhenCutOffEarly ==
    (pc = "done" /\ ModelStopped /\ (program = "autobrowser" \/ AssistantTurns < StatedCeiling))
        => ~NoticeInTranscript

(* ---------------------- the ledger after a replay --------------------- *)

\* C36: after a completed replay pass the new ledger has one entry for each entry
\* of the loaded ledger, in the loaded order, and entry i has the tool name and the
\* arguments of loaded entry i, also when entry i was executed a second time with
\* the arguments the model suggested.
C36_LedgerKeepsEntries ==
    ReplayCompleted =>
        /\ Len(learningData) = Len(summary)
        /\ \A i \in 1..Len(summary) :
            /\ learningData[i].toolName = summary[i].toolName
            /\ learningData[i].arguments = summary[i].arguments

\* C36 witness: the replay has returned; one command was executed a second time
\* with other arguments than the recorded ones, that execution succeeded, and the
\* new ledger has its result under the recorded arguments.
C36_Witness ==
    /\ ReplayCompleted
    /\ Len(summary) > 1
    /\ \E i \in 1..Len(summary) :
        /\ Cardinality(RunsOf(i)) = 2
        /\ LET second == replayRuns[Latest(RunsOf(i))] IN
            /\ ~second.err
            /\ second.args # summary[i].arguments
            /\ learningData[i].result = second.text
            /\ learningData[i].arguments = summary[i].arguments

(* ----------------------- the listener's one signal -------------------- *)

\* The values the listener has sent: those in the channels and the one received.
SendsInTotal ==
    Len(wsURLChan) + Len(errChan)
        + (IF wsURL # <<>> THEN 1 ELSE 0)
        + (IF launchErr \in {ReadError, NoURLError} THEN 1 ELSE 0)

\* C37: the listener sends at most one value in total on wsURLChan and errChan, it
\* has ended when it has sent one, and it is never blocked in a send, also not
\* when the main flow has returned from the select on timeout.
C37_ListenerSendsOnce ==
    /\ listener # "blocked"
    /\ SendsInTotal <= 1
    /\ listener = "done" <=> SendsInTotal = 1
    /\ sentIn # "" <=> listener = "done"

\* C37 witness: the select returned on timeout, and the listener sent its value
\* after that and ended; the value stays in its channel.
C37_Witness ==
    /\ launchErr = TimeoutError
    /\ sentIn = "failed"
    /\ listener = "done"
    /\ Len(wsURLChan) + Len(errChan) = 1

(* -------------------- what the ledger takes for a success ------------- *)

\* C38: no invocation in the ledger of a session has a result that carries the
\* backend's error flag.
C38_LedgerHoldsSuccesses ==
    \A i \in 1..Len(learningData) : ~ErrorFlagged(learningData[i].result)

\* The same for the calls that failed as calls: none of them is in the ledger.
LedgerHoldsReturnedCalls ==
    \A i \in 1..Len(learningData) :
        \E n \in Catalog, out \in {"ok", "toolerr"} :
            learningData[i].result = MarshalIndent(BackendResultOf(n, out))

(* --------------------------- crash recovery -------------------------- *)

\* C39: after the ledger was saved with an empty ledger in memory and command logs in
\* the directory, the ledger holds the invocation of every command log, once each, in
\* the order of their execution.
C39_RecoveryLossless ==
    (pc = "saved" /\ commandFiles # <<>>) => learningData = RecordedInvocations

\* The same for the directories in which no two command logs have the same tool
\* name and the same timestamp.
RecoveryLosslessWhenDistinct ==
    (/\ pc = "saved"
     /\ \A i, j \in 1..Len(commandFiles) :
            (/\ i # j
             /\ commandFiles[i].data.toolName = commandFiles[j].data.toolName)
                => commandFiles[i].data.timestamp # commandFiles[j].data.timestamp)
        => learningData = RecordedInvocations

====
